---- MODULE Spec2Model ----
(***************************************************************************)
(* Model of theforce/descriptor/atoms.py: the load balancer (Distributer)  *)
(* and the per-atom local environment view (Local) held by a TorchAtoms.   *)
(* Python lists are sequences; the element with Python index r sits at     *)
(* position r + 1.                                                         *)
(***************************************************************************)
EXTENDS Integers, Sequences, FiniteSets, TLC

\* ------------------------------------------------------------------ bounds
MaxWorld == 3
MaxAtoms == 2
MaxLoad == 4
NAtoms == 3
MaxBonds == 2
LexRange == 2
MaxCopyBonds == 1
MaxConfAtoms == 2
MaxEdits == 2
MaxRanks == 2
MaxNNBonds == 2
MaxDescs == 3
MaxCalls == 4
OwnAtoms == 2
ScrAtoms == 2
MaxConfs == 2

\* atoms of the configuration a collective variable is evaluated on
MaxQlAtoms == 3

\* atomic numbers used for the configurations
Species == {10, 18}

\* atoms.ranks is None (a rank list never holds a negative entry)
None == << -1 >>

VARIABLES world_size, loads, total, atoms, pc, call, op, err, counted

distVars == <<world_size, loads, total, atoms, pc, call, op, err, counted>>

\* a configuration with a cutoff: its species, its neighbour list and its
\* views (self.loc); the last operation on a view; the view last derived
\* from one of them by detach or by as_atoms().as_local()
VARIABLES numbers, nl, loc, vop, det

viewVars == <<numbers, nl, loc, vop, det>>

\* a configuration and its change detector: the live fields (self.changes._ref
\* is the configuration), the snapshot, the neighbour list, the owned
\* indices, the views, the last operation and how it ended
VARIABLES ref, changes, nlist, indices, locs, gen, edits, uop, uerr

updVars == <<ref, changes, nlist, indices, locs, gen, edits, uop, uerr>>

\* one process per rank of a group, all holding the same configuration:
\* whether it is distributed, its explicit rank list, each rank's owned
\* indices and views, each rank's position in gathered(), the number of
\* views it has pickled, the scratch folder, the ranks waiting at the
\* barrier, and what gathered() returned
VARIABLES workers, is_distributed, ranks, owned, held, gpc, pickled, folder,
          arrived, gathered

gathVars == <<workers, is_distributed, ranks, owned, held, gpc, pickled, folder,
              arrived, gathered>>

\* the cache of the nearest-neighbour order of each view (self._d and
\* self._argsort), and what the last access to nn and nn_r gave
VARIABLES cached, nnout

nnVars == <<cached, nnout>>

\* the active feature generators of a configuration (self.descriptors, by
\* name), whether the configuration was built with a cutoff (and so has a
\* neighbour list and views), and the last registration and how it ended
VARIABLES names, has_cutoff, dop

descVars == <<names, has_cutoff, dop>>

\* one configuration with a cutoff in a program every rank of a group runs:
\* the size of the group and the explicit rank list; on each rank whether
\* the configuration has a process group and is distributed, its owned
\* indices, its views (each stands for the atom it is the view of), and how
\* the rank's last call ended; the atoms with a file in the scratch folder;
\* the last call; what copy() gave on each rank; the number of calls made
VARIABLES world, explicit, process_group, distributed, own, views, status,
          files, oop, copied, calls

ownVars == <<world, explicit, process_group, distributed, own, views, status,
             files, oop, copied, calls>>

\* the ranks of a group gather a list of configurations one after another:
\* the scratch root handed to the call and the call made; the rank list of
\* each configuration (AtomsData.X); the scratch storage, by root and atom;
\* on each rank the configuration it is gathering, its position in
\* gathered(), the number of views it has written, the views it has read
\* for each configuration, the number of barriers it has called, and the
\* key of its last access to the storage
VARIABLES root, entry, X, store, cur, spc, nwritten, got, bar, access

scrVars == <<root, entry, X, store, cur, spc, nwritten, got, bar, access>>

\* the counters of the balancer and the configuration as they were when
\* the last assign was entered
VARIABLES before

roundVars == <<before>>

\* the select call made last on a view: its atom and its arguments
VARIABLES asked

selVars == <<asked>>

\* a Qlvar collective variable: the atomic numbers it is called with, its
\* attributes i, j and index, the outcome of its last call, and the last
\* operation
VARIABLES qnumbers, qvar, qout, qop

qlVars == <<qnumbers, qvar, qout, qop>>

lateVars == <<roundVars, selVars, qlVars>>

moreVars == <<nnVars, descVars, ownVars, scrVars, lateVars>>

vars == <<distVars, viewVars, updVars, gathVars, moreVars>>

\* ------------------------------------------------------- helper operators
RECURSIVE SumSeq(_)
SumSeq(s) == IF s = <<>> THEN 0 ELSE Head(s) + SumSeq(Tail(s))

MaxOf(S) == CHOOSE m \in S : \A x \in S : x <= m
MinOf(S) == CHOOSE m \in S : \A x \in S : m <= x

SeqRange(s) == {s[k] : k \in 1..Len(s)}

SeqsUpTo(S, n) == UNION {[1..m -> S] : m \in 0..n}

\* world_size * [0]
Zeros == [r \in 1..world_size |-> 0]

\* list(range(world_size))
RankList == [r \in 1..world_size |-> r - 1]

Abs(x) == IF x < 0 THEN -x ELSE x

\* the sum of f[z] over the z in S
RECURSIVE SumOver(_, _)
SumOver(S, f) ==
    IF S = {} THEN 0
    ELSE LET z == CHOOSE y \in S : TRUE IN f[z] + SumOver(S \ {z}, f)

\* the sum of the magnitudes of the per-species counters
Mass(ld) ==
    SumOver(DOMAIN ld,
            [z \in DOMAIN ld |-> SumSeq([r \in 1..Len(ld[z]) |-> Abs(ld[z][r])])])

\* mutant: the total left out of the key
KeysNoTotal(tt, lz, rk) == [r \in 1..Len(rk) |-> <<0, lz[r], rk[r]>>]

\* mutant: the per-species count left out of the key
KeysNoSpecies(tt, lz, rk) == [r \in 1..Len(rk) |-> <<tt[r], 0, rk[r]>>]

\* list(zip(self.total, self.loads[z], self.ranks))
Keys(tt, lz, rk) == [r \in 1..Len(rk) |-> <<tt[r], lz[r], rk[r]>>]

\* Python's ordering of 3-tuples of integers
TupleLess(x, y) ==
    \/ x[1] < y[1]
    \/ x[1] = y[1] /\ x[2] < y[2]
    \/ x[1] = y[1] /\ x[2] = y[2] /\ x[3] < y[3]

RECURSIVE Insert(_, _)
Insert(s, x) ==
    IF s = <<>> THEN <<x>>
    ELSE IF TupleLess(x, Head(s)) THEN <<x>> \o s
    ELSE <<Head(s)>> \o Insert(Tail(s), x)

\* sorted(keys)
RECURSIVE Sorted(_)
Sorted(s) == IF s = <<>> THEN <<>> ELSE Insert(Sorted(Tail(s)), Head(s))

\* mutant: sorted(keys)[-1][2]
PickRankLast(keys) == Sorted(keys)[Len(keys)][3]

\* rank = sorted(keys)[0][2]
PickRank(keys) == Sorted(keys)[1][3]

\* mutant: the vector is reset at every sighting
WithSpeciesReset(ld, z) == (z :> Zeros) @@ ld

\* self.loads[z] = self.world_size * [0] when z is new
WithSpecies(ld, z) == IF z \in DOMAIN ld THEN ld ELSE (z :> Zeros) @@ ld

\* no balancer has been constructed
NoDist ==
    /\ world_size = 0
    /\ loads = [z \in {} |-> <<>>]
    /\ total = <<>>
    /\ atoms = [numbers |-> <<>>, ranks |-> None]
    /\ pc = "idle"
    /\ call = <<>>
    /\ op = "init"
    /\ err = "none"
    /\ counted = [z \in Species |-> 0]

\* off is None (no offset is the empty tuple)
NoOff == << <<>> >>

\* no view has been derived yet
NoDet == [how |-> "none", from |-> 0, err |-> "none", view |-> <<>>]

\* no configuration with a cutoff has been constructed
NoView ==
    /\ numbers = <<>>
    /\ nl = <<>>
    /\ loc = <<>>
    /\ vop = "none"
    /\ det = NoDet

\* no configuration with a change detector has been constructed
NoUpd ==
    /\ ref = [numbers |-> <<>>, positions |-> <<>>, cell |-> 0,
              pbc |-> <<FALSE, FALSE, FALSE>>, cutoff |-> 0, descriptors |-> 0]
    /\ changes = [_natoms |-> 0, _numbers |-> <<>>, _positions |-> <<>>,
                  _cell |-> 0, _pbc |-> <<FALSE, FALSE, FALSE>>,
                  _descriptors |-> 0]
    /\ nlist = [built |-> FALSE, radii |-> 0, born |-> 0, seen |-> <<>>]
    /\ indices = <<>>
    /\ locs = [none |-> TRUE, views |-> <<>>]
    /\ gen = 0
    /\ edits = 0
    /\ uop = [name |-> "none", asked |-> FALSE, build_locals |-> TRUE]
    /\ uerr = "none"

\* no group of ranks has been set up
NoGath ==
    /\ workers = 0
    /\ is_distributed = FALSE
    /\ ranks = None
    /\ owned = <<>>
    /\ held = <<>>
    /\ gpc = <<>>
    /\ pickled = <<>>
    /\ folder = <<>>
    /\ arrived = {}
    /\ gathered = <<>>

\* no view has a cache
NoNN ==
    /\ cached = <<>>
    /\ nnout = [of |-> -1, nn |-> <<>>, nn_r |-> <<>>]

\* no configuration with feature generators
NoDesc ==
    /\ names = <<>>
    /\ has_cutoff = FALSE
    /\ dop = [name |-> "none", err |-> "none"]

\* no program is run
NoOwn ==
    /\ world = 0
    /\ explicit = None
    /\ process_group = <<>>
    /\ distributed = <<>>
    /\ own = <<>>
    /\ views = <<>>
    /\ status = <<>>
    /\ files = {}
    /\ oop = "none"
    /\ copied = <<>>
    /\ calls = 0

\* no list of configurations is gathered
NoScr ==
    /\ root = "none"
    /\ entry = "none"
    /\ X = <<>>
    /\ store = <<>>
    /\ cur = <<>>
    /\ spc = <<>>
    /\ nwritten = <<>>
    /\ got = <<>>
    /\ bar = <<>>
    /\ access = <<>>

\* no assign has been entered
NoBefore == [loads |-> [z \in {} |-> <<>>], total |-> <<>>, numbers |-> <<>>]

NoRound == before = NoBefore

\* no select has been called
NoAsk == [x |-> -1, a |-> 0, b |-> 0, bothways |-> FALSE]

NoSel == asked = NoAsk

\* no collective variable is constructed
NoVar == [i |-> 0, j |-> 0, fixed |-> FALSE, index |-> 0]

\* no call has been made
NoOut == [raised |-> "none", named |-> <<>>, ql |-> <<>>]

NoQl ==
    /\ qnumbers = <<>>
    /\ qvar = NoVar
    /\ qout = NoOut
    /\ qop = "none"

NoLate == NoRound /\ NoSel /\ NoQl

NoMore == NoNN /\ NoDesc /\ NoOwn /\ NoScr /\ NoLate

\* ------------------------------------------------------------ Distributer
\* Distributer.__init__, and the configuration handed to the balancer
InitDist ==
    /\ NoView
    /\ NoUpd
    /\ NoGath
    /\ NoMore
    /\ world_size \in 1..MaxWorld
    /\ loads = [z \in {} |-> <<>>]
    /\ total = [r \in 1..world_size |-> 0]
    /\ atoms \in {[numbers |-> n, ranks |-> None] : n \in SeqsUpTo(Species, MaxAtoms)}
    /\ pc = "idle"
    /\ call = <<>>
    /\ op = "init"
    /\ err = "none"
    /\ counted = [z \in Species |-> 0]

\* TorchAtoms(numbers=nums): a new configuration without ranks
NewAtoms(nums) ==
    /\ pc = "idle"
    /\ atoms' = [numbers |-> nums, ranks |-> None]
    /\ op' = "new"
    /\ err' = "none"
    /\ UNCHANGED <<world_size, loads, total, pc, call, counted>>
    /\ UNCHANGED <<viewVars, updVars, gathVars, moreVars>>

\* TorchAtoms(numbers=nums, ranks=rk): a configuration with an explicit list
NewAtomsRanked(nums, rk) ==
    /\ pc = "idle"
    /\ Len(rk) = Len(nums)
    /\ atoms' = [numbers |-> nums, ranks |-> rk]
    /\ op' = "new_ranked"
    /\ err' = "none"
    /\ UNCHANGED <<world_size, loads, total, pc, call, counted>>
    /\ UNCHANGED <<viewVars, updVars, gathVars, moreVars>>

\* Distributer.__call__ entered with atoms.ranks None: ranks = []
CallBegin ==
    /\ pc = "idle"
    /\ atoms.ranks = None
    /\ Mass(loads) + Len(atoms.numbers) <= MaxLoad
    /\ pc' = "call"
    /\ call' = <<>>
    /\ op' = "call_begin"
    /\ err' = "none"
    /\ UNCHANGED <<world_size, loads, total, atoms, counted>>
    /\ UNCHANGED <<viewVars, updVars, gathVars, moreVars>>

\* Distributer.__call__ with atoms.ranks already set: nothing is done
CallSkip ==
    /\ pc = "idle"
    /\ atoms.ranks # None
    /\ op' = "call_skip"
    /\ err' = "none"
    /\ UNCHANGED <<world_size, loads, total, atoms, pc, call, counted>>
    /\ UNCHANGED <<viewVars, updVars, gathVars, moreVars>>

\* one iteration of the loop over atoms.numbers; call is the local list ranks
CallAtom ==
    /\ pc = "call"
    /\ Len(call) < Len(atoms.numbers)
    /\ LET z == atoms.numbers[Len(call) + 1]
           ld == WithSpecies(loads, z)
           rank == PickRank(Keys(total, ld[z], RankList))
       IN /\ loads' = [ld EXCEPT ![z][rank + 1] = @ + 1]
          /\ total' = [total EXCEPT ![rank + 1] = @ + 1]
          /\ call' = Append(call, rank)
          /\ counted' = [counted EXCEPT ![z] = @ + 1]
    /\ op' = "call_atom"
    /\ UNCHANGED <<world_size, atoms, pc, err>>
    /\ UNCHANGED <<viewVars, updVars, gathVars, moreVars>>

\* atoms.ranks = ranks
CallEnd ==
    /\ pc = "call"
    /\ Len(call) = Len(atoms.numbers)
    /\ atoms' = [atoms EXCEPT !.ranks = call]
    /\ pc' = "idle"
    /\ call' = <<>>
    /\ op' = "call_end"
    /\ UNCHANGED <<world_size, loads, total, err, counted>>
    /\ UNCHANGED <<viewVars, updVars, gathVars, moreVars>>

\* the number of atoms of species z with rank r among the first p atoms
CountAt(nums, rk, p, z, r) ==
    Cardinality({k \in 1..p : nums[k] = z /\ rk[k] = r})

\* the number of atoms of species z among the first p atoms
CountOf(nums, p, z) == Cardinality({k \in 1..p : nums[k] = z})

\* the number of atoms upload or unload got through: all of them, or those
\* before the first atom whose species has no vector
Processed(ld, nums) ==
    IF \A k \in 1..Len(nums) : nums[k] \in DOMAIN ld THEN Len(nums)
    ELSE MinOf({k \in 1..Len(nums) : nums[k] \notin DOMAIN ld}) - 1

\* mutant: the per-species counter is not adjusted
RECURSIVE AdjustTotalOnly(_, _, _, _, _, _)
AdjustTotalOnly(ld, tt, nums, rk, k, sign) ==
    IF k > Len(nums) \/ k > Len(rk)
    THEN [loads |-> ld, total |-> tt, err |-> "none"]
    ELSE IF nums[k] \notin DOMAIN ld
    THEN [loads |-> ld, total |-> tt, err |-> "KeyError"]
    ELSE AdjustTotalOnly(ld, [tt EXCEPT ![rk[k] + 1] = @ + sign],
                         nums, rk, k + 1, sign)

\* mutant: the loop stops before the last atom
RECURSIVE AdjustButLast(_, _, _, _, _, _)
AdjustButLast(ld, tt, nums, rk, k, sign) ==
    IF k >= Len(nums) \/ k >= Len(rk)
    THEN [loads |-> ld, total |-> tt, err |-> "none"]
    ELSE IF nums[k] \notin DOMAIN ld
    THEN [loads |-> ld, total |-> tt, err |-> "KeyError"]
    ELSE AdjustButLast([ld EXCEPT ![nums[k]][rk[k] + 1] = @ + sign],
                       [tt EXCEPT ![rk[k] + 1] = @ + sign], nums, rk, k + 1, sign)

\* the loop of upload (sign = 1) and unload (sign = -1) from atom k on:
\* self.loads[z][rank] raises KeyError when z is not a key of self.loads
RECURSIVE Adjust(_, _, _, _, _, _)
Adjust(ld, tt, nums, rk, k, sign) ==
    IF k > Len(nums) \/ k > Len(rk)
    THEN [loads |-> ld, total |-> tt, err |-> "none"]
    ELSE IF nums[k] \notin DOMAIN ld
    THEN [loads |-> ld, total |-> tt, err |-> "KeyError"]
    ELSE Adjust([ld EXCEPT ![nums[k]][rk[k] + 1] = @ + sign],
                [tt EXCEPT ![rk[k] + 1] = @ + sign], nums, rk, k + 1, sign)

\* Distributer.upload
Upload ==
    /\ pc = "idle"
    /\ IF atoms.ranks # None
       THEN LET res == Adjust(loads, total, atoms.numbers, atoms.ranks, 1, 1)
            IN /\ Mass(res.loads) <= MaxLoad
               /\ loads' = res.loads
               /\ total' = res.total
               /\ err' = res.err
               /\ counted' = [z \in Species |-> counted[z]
                      + CountOf(atoms.numbers, Processed(loads, atoms.numbers), z)]
       ELSE /\ err' = "none"
            /\ UNCHANGED <<loads, total, counted>>
    /\ op' = IF atoms.ranks # None THEN "upload" ELSE "upload_skip"
    /\ UNCHANGED <<world_size, atoms, pc, call>>
    /\ UNCHANGED <<viewVars, updVars, gathVars, moreVars>>

\* Distributer.unload
Unload ==
    /\ pc = "idle"
    /\ IF atoms.ranks # None
       THEN LET res == Adjust(loads, total, atoms.numbers, atoms.ranks, 1, -1)
            IN /\ Mass(res.loads) <= MaxLoad
               /\ loads' = res.loads
               /\ total' = res.total
               /\ err' = res.err
               /\ atoms' = IF res.err = "none"
                           THEN [atoms EXCEPT !.ranks = None]
                           ELSE atoms
               /\ counted' = [z \in Species |-> counted[z]
                      - CountOf(atoms.numbers, Processed(loads, atoms.numbers), z)]
       ELSE /\ err' = "none"
            /\ UNCHANGED <<loads, total, atoms, counted>>
    /\ op' = IF atoms.ranks # None THEN "unload" ELSE "unload_skip"
    /\ UNCHANGED <<world_size, pc, call>>
    /\ UNCHANGED <<viewVars, updVars, gathVars, moreVars>>

\* Distributer.__call__ entered with atoms.ranks None, the counters noted
AssignBegin ==
    /\ pc = "idle"
    /\ atoms.ranks = None
    /\ Mass(loads) + Len(atoms.numbers) <= MaxLoad
    /\ pc' = "call"
    /\ call' = <<>>
    /\ op' = "call_begin"
    /\ err' = "none"
    /\ before' = [loads |-> loads, total |-> total, numbers |-> atoms.numbers]
    /\ UNCHANGED <<world_size, loads, total, atoms, counted>>
    /\ UNCHANGED <<viewVars, updVars, gathVars, nnVars, descVars, ownVars,
                   scrVars, selVars, qlVars>>

\* assign, load and unload, with the counters noted when assign is entered
NextRound ==
    \/ \E nums \in SeqsUpTo(Species, MaxAtoms) : NewAtoms(nums)
    \/ AssignBegin
    \/ CallSkip
    \/ CallAtom
    \/ CallEnd
    \/ Upload
    \/ Unload

SpecRound == InitDist /\ [][NextRound]_vars

\* an input stream of assign calls only
NextAssign ==
    \/ \E nums \in SeqsUpTo(Species, MaxAtoms) : NewAtoms(nums)
    \/ CallBegin
    \/ CallSkip
    \/ CallAtom
    \/ CallEnd

SpecAssign == InitDist /\ [][NextAssign]_vars

\* assign, load and unload on configurations with and without explicit ranks
Next ==
    \/ \E nums \in SeqsUpTo(Species, MaxAtoms) : NewAtoms(nums)
    \/ \E nums \in SeqsUpTo(Species, MaxAtoms),
          rk \in SeqsUpTo(0..(world_size - 1), MaxAtoms) : NewAtomsRanked(nums, rk)
    \/ CallBegin
    \/ CallSkip
    \/ CallAtom
    \/ CallEnd
    \/ Upload
    \/ Unload

Spec == InitDist /\ [][Next]_vars


\* ------------------------------------------------------------------ Local
\* periodic image offsets handed out by the neighbour list
Offsets ==
    {<<0, 0, 0>>, <<1, 0, 0>>, <<-1, 0, 0>>, <<0, 1, -1>>, <<0, -1, 1>>}

Neg(o) == <<-o[1], -o[2], -o[3]>>

\* the positions (atom k at <<k, 0, 0>>) and the cubic cell of the configuration
xyz(k) == <<k, 0, 0>>
lll == NAtoms + 1

\* mutant: only the first component is looked at
lex3First(x) == x[1] > -x[1]

\* lex3
lex3(x) ==
    IF x[1] # 0 THEN x[1] > -x[1]
    ELSE IF x[2] # 0 THEN x[2] > -x[2]
    ELSE IF x[3] # 0 THEN x[3] > -x[3]
    ELSE TRUE

\* the candidates <<i, j, off>> a neighbour list may hold (self_interaction=False)
Directed ==
    {<<i, j, o>> : i \in 0..(NAtoms - 1), j \in 0..(NAtoms - 1), o \in Offsets}
    \ {<<i, i, <<0, 0, 0>>>> : i \in 0..(NAtoms - 1)}

\* bothways=True: the neighbour list holds <<j, i, -off>> with <<i, j, off>>
Mirror(c) == <<c[2], c[1], Neg(c[3])>>

RECURSIVE SubsetsUpTo(_, _)
SubsetsUpTo(S, n) ==
    IF n = 0 THEN {{}}
    ELSE LET P == SubsetsUpTo(S, n - 1)
         IN P \cup {q \cup {x} : q \in P, x \in S}

\* the order in which a neighbour list is read out: by index, then by offset
CandLess(c, d) ==
    \/ c[2] < d[2]
    \/ c[2] = d[2] /\ c[3][1] < d[3][1]
    \/ c[2] = d[2] /\ c[3][1] = d[3][1] /\ c[3][2] < d[3][2]
    \/ c[2] = d[2] /\ c[3][1] = d[3][1] /\ c[3][2] = d[3][2] /\ c[3][3] < d[3][3]

RECURSIVE SetToSeq(_)
SetToSeq(S) ==
    IF S = {} THEN <<>>
    ELSE LET c == CHOOSE x \in S : \A y \in S \ {x} : CandLess(x, y)
         IN <<c>> \o SetToSeq(S \ {c})

\* Local.__init__(i, j, a, b, r, off)
Local(i, j, a, b, r, off) ==
    [index |-> i, number |-> a,
     _i |-> [k \in 1..Len(j) |-> i], _j |-> j,
     _a |-> [k \in 1..Len(b) |-> a], _b |-> b,
     _r |-> r, _m |-> [k \in 1..Len(j) |-> TRUE], off |-> off]

\* TorchAtoms.local(a)
local(nums, nbl, a) ==
    LET n == [k \in 1..Len(nbl[a + 1]) |-> nbl[a + 1][k][2]]
        off == [k \in 1..Len(n) |-> nbl[a + 1][k][3]]
        r == [k \in 1..Len(n) |->
                 [d \in 1..3 |-> xyz(n[k])[d] - xyz(a)[d] + off[k][d] * lll]]
    IN Local(a, n, nums[a + 1], [k \in 1..Len(n) |-> nums[n[k] + 1]], r, off)

\* Local._lex
_lex(v) ==
    IF v.off = NoOff THEN [k \in 1..Len(v._i) |-> TRUE]
    ELSE [k \in 1..Len(v.off) |-> lex3(v.off[k])]

\* mutant: self._j >= self._i in place of the tie-break
SelectMaskGeq(v, a, b, bothways) ==
    LET m == [k \in 1..Len(v._j) |-> v._a[k] = a /\ v._b[k] = b]
    IN IF a = b
       THEN IF bothways THEN m
            ELSE [k \in 1..Len(m) |-> m[k] /\ v._j[k] >= v._i[k]]
       ELSE IF bothways
            THEN [k \in 1..Len(m) |-> m[k] \/ (v._a[k] = b /\ v._b[k] = a)]
            ELSE m

\* mutant: pairs are deduplicated for a # b as well
SelectMaskDedupAll(v, a, b, bothways) ==
    LET m == [k \in 1..Len(v._j) |-> v._a[k] = a /\ v._b[k] = b]
        d == [k \in 1..Len(m) |->
                 m[k] /\ (v._j[k] > v._i[k] \/ (v._j[k] = v._i[k] /\ _lex(v)[k]))]
    IN IF bothways
       THEN IF a = b THEN m
            ELSE [k \in 1..Len(m) |-> m[k] \/ (v._a[k] = b /\ v._b[k] = a)]
       ELSE d

\* mutant: the computed mask is intersected with the mask in force
SelectMaskNarrowing(v, a, b, bothways) ==
    LET m == [k \in 1..Len(v._j) |-> v._a[k] = a /\ v._b[k] = b /\ v._m[k]]
    IN IF a = b
       THEN IF bothways THEN m
            ELSE [k \in 1..Len(m) |->
                     m[k] /\ (v._j[k] > v._i[k] \/ (v._j[k] = v._i[k] /\ _lex(v)[k]))]
       ELSE IF bothways
            THEN [k \in 1..Len(m) |->
                     m[k] \/ (v._a[k] = b /\ v._b[k] = a /\ v._m[k])]
            ELSE m

\* the mask m computed by Local.select(a, b, bothways)
SelectMask(v, a, b, bothways) ==
    LET m == [k \in 1..Len(v._j) |-> v._a[k] = a /\ v._b[k] = b]
    IN IF a = b
       THEN IF bothways THEN m
            ELSE [k \in 1..Len(m) |->
                     m[k] /\ (v._j[k] > v._i[k] \/ (v._j[k] = v._i[k] /\ _lex(v)[k]))]
       ELSE IF bothways
            THEN [k \in 1..Len(m) |-> m[k] \/ (v._a[k] = b /\ v._b[k] = a)]
            ELSE m

\* (x != y).any() on two tensors whose leading sizes are broadcast: sizes
\* that differ are stretched when one of them is 1, and raise otherwise
NeAny(x, y) ==
    IF Len(x) = Len(y) THEN
        IF \E k \in 1..Len(x) : x[k] # y[k] THEN "True" ELSE "False"
    ELSE IF Len(x) = 1 THEN
        IF \E k \in 1..Len(y) : x[1] # y[k] THEN "True" ELSE "False"
    ELSE IF Len(y) = 1 THEN
        IF \E k \in 1..Len(x) : x[k] # y[1] THEN "True" ELSE "False"
    ELSE "RuntimeError"

\* the elif chain of Local.__eq__: the first comparison that is true gives
\* False, one that raises ends the call, and True is left when none is true
RECURSIVE EqChain(_)
EqChain(tests) ==
    IF tests = <<>> THEN "True"
    ELSE IF Head(tests) = "True" THEN "False"
    ELSE IF Head(tests) = "RuntimeError" THEN "RuntimeError"
    ELSE EqChain(Tail(tests))

\* Local.__eq__(self, other) for two views
EqLocal(x, y) ==
    EqChain(<<NeAny(x._i, y._i), NeAny(x._j, y._j), NeAny(x._a, y._a),
              NeAny(x._b, y._b), NeAny(x._r, y._r), NeAny(_lex(x), _lex(y))>>)

\* TorchAtoms(numbers=..., cutoff=...): build_nl, then update(forced=True)
\* builds one view per atom from a neighbour list with mirrored candidates
InitView ==
    /\ NoDist
    /\ NoUpd
    /\ NoGath
    /\ NoMore
    /\ numbers \in [1..NAtoms -> Species]
    /\ \E B \in SubsetsUpTo(Directed, MaxBonds) :
          LET D == B \cup {Mirror(c) : c \in B}
          IN nl = [a \in 1..NAtoms |-> SetToSeq({c \in D : c[1] = a - 1})]
    /\ loc = [a \in 1..NAtoms |-> local(numbers, nl, a - 1)]
    /\ vop = "init"
    /\ det = NoDet

\* mutant: the mask is installed whatever in_place says
SelectInstall(x, a, b, bothways, in_place) ==
    /\ LET m == SelectMask(loc[x + 1], a, b, bothways)
       IN loc' = [loc EXCEPT ![x + 1]._m = m]
    /\ vop' = IF in_place THEN "select" ELSE "select_copy"
    /\ UNCHANGED <<numbers, nl, det>>
    /\ UNCHANGED <<distVars, updVars, gathVars, moreVars>>

\* Local.select(a, b, bothways, in_place) on the view of atom x; the mask
\* it returns is SelectMask
Select(x, a, b, bothways, in_place) ==
    /\ LET m == SelectMask(loc[x + 1], a, b, bothways)
       IN loc' = IF in_place THEN [loc EXCEPT ![x + 1]._m = m] ELSE loc
    /\ vop' = IF in_place THEN "select" ELSE "select_copy"
    /\ UNCHANGED <<numbers, nl, det>>
    /\ UNCHANGED <<distVars, updVars, gathVars, moreVars>>

\* Local.unselect() on the view of atom x
Unselect(x) ==
    /\ loc' = [loc EXCEPT ![x + 1]._m = [k \in 1..Len(loc[x + 1]._i) |-> TRUE]]
    /\ vop' = "unselect"
    /\ UNCHANGED <<numbers, nl, det>>
    /\ UNCHANGED <<distVars, updVars, gathVars, moreVars>>

\* loc[x] == loc[y]: the call returns True or False or raises, and changes
\* nothing
Eq(x, y) ==
    /\ EqLocal(loc[x + 1], loc[y + 1]) \in {"True", "False", "RuntimeError"}
    /\ vop' = "eq"
    /\ UNCHANGED <<numbers, nl, loc, det>>
    /\ UNCHANGED <<distVars, updVars, gathVars, moreVars>>

NextView ==
    \/ \E x \in 0..(NAtoms - 1), a \in Species, b \in Species,
          bothways \in BOOLEAN, in_place \in BOOLEAN :
          Select(x, a, b, bothways, in_place)
    \/ \E x \in 0..(NAtoms - 1) : Unselect(x)
    \/ \E x \in 0..(NAtoms - 1), y \in 0..(NAtoms - 1) : Eq(x, y)

SpecView == InitView /\ [][NextView]_vars

\* Local.select(a, b, bothways) with in_place left True on the view of atom
\* x, the call noted
SelectNoted(x, a, b, bothways) ==
    /\ LET m == SelectMask(loc[x + 1], a, b, bothways)
       IN loc' = [loc EXCEPT ![x + 1]._m = m]
    /\ vop' = "select"
    /\ asked' = [x |-> x, a |-> a, b |-> b, bothways |-> bothways]
    /\ UNCHANGED <<numbers, nl, det>>
    /\ UNCHANGED <<distVars, updVars, gathVars, nnVars, descVars, ownVars,
                   scrVars, roundVars, qlVars>>

\* sequences of select and unselect calls on the view of the first atom,
\* which the initial states make any view
NextSel ==
    \/ \E a \in Species, b \in Species, bothways \in BOOLEAN :
          SelectNoted(0, a, b, bothways)
    \/ Unselect(0)

SpecSel == InitView /\ [][NextSel]_vars

\* ---------------------------------------------- detach, as_atoms, as_local
\* x[self._m]: the entries of x the mask selects (Local.i, j, a, b, r)
RECURSIVE Masked(_, _)
Masked(x, m) ==
    IF x = <<>> THEN <<>>
    ELSE IF Head(m) THEN <<Head(x)>> \o Masked(Tail(x), Tail(m))
    ELSE Masked(Tail(x), Tail(m))

\* Local.__init__(i, j, a, b, r) with i an array as long as j and off=None:
\* self.index is that array
LocalFromArrays(i, j, a, b, r) ==
    [index |-> i, number |-> a,
     _i |-> [k \in 1..Len(j) |-> i[k]], _j |-> j,
     _a |-> [k \in 1..Len(b) |-> a], _b |-> b,
     _r |-> r, _m |-> [k \in 1..Len(j) |-> TRUE], off |-> NoOff]

\* Local.detach(keepids): the arrays read are self._b, self._r, self._i, self._j
detach(v, keepids) ==
    LET a == v.number
        b == v._b
        r == v._r
        i == IF keepids THEN v._i ELSE [k \in 1..Len(r) |-> 0]
        j == IF keepids THEN v._j ELSE [k \in 1..Len(r) |-> k]
    IN LocalFromArrays(i, j, a, b, r)

\* tensor.unique(): the distinct values in ascending order
RECURSIVE Unique(_)
Unique(S) ==
    IF S = {} THEN <<>>
    ELSE LET z == MinOf(S) IN <<z>> \o Unique(S \ {z})

\* Local.as_atoms(): the own species at the origin, then the candidates
as_atoms(v) ==
    LET a == Unique(SeqRange(v._a))
    IN [numbers |-> a \o v._b,
        positions |-> [k \in 1..Len(a) |-> <<0, 0, 0>>] \o v._r]

\* TorchAtoms.as_local(): self.numbers[0] raises IndexError without atoms
as_local(at) ==
    IF Len(at.numbers) = 0 THEN [err |-> "IndexError", view |-> <<>>]
    ELSE LET r == Tail(at.positions)
             a == at.numbers[1]
             b == Tail(at.numbers)
             n == Len(at.numbers)
             i == [k \in 1..(n - 1) |-> 0]
             j == [k \in 1..(n - 1) |-> k]
         IN [err |-> "none", view |-> LocalFromArrays(i, j, a, b, r)]

\* d = loc[x].detach(keepids)
Detach(x, keepids) ==
    /\ det' = [how |-> IF keepids THEN "detach_keepids" ELSE "detach",
               from |-> x, err |-> "none",
               view |-> detach(loc[x + 1], keepids)]
    /\ vop' = "detach"
    /\ UNCHANGED <<numbers, nl, loc>>
    /\ UNCHANGED <<distVars, updVars, gathVars, moreVars>>

\* d = loc[x].as_atoms().as_local()
AsAtomsAsLocal(x) ==
    /\ LET res == as_local(as_atoms(loc[x + 1]))
       IN det' = [how |-> "as_local", from |-> x, err |-> res.err,
                  view |-> res.view]
    /\ vop' = "as_local"
    /\ UNCHANGED <<numbers, nl, loc>>
    /\ UNCHANGED <<distVars, updVars, gathVars, moreVars>>

\* d.select(a, b, bothways) on the derived view
SelectDetached(a, b, bothways) ==
    /\ det.how # "none" /\ det.err = "none"
    /\ det' = [det EXCEPT !.view._m = SelectMask(det.view, a, b, bothways)]
    /\ vop' = "select_detached"
    /\ UNCHANGED <<numbers, nl, loc>>
    /\ UNCHANGED <<distVars, updVars, gathVars, moreVars>>

\* a configuration as in InitView, with at most MaxCopyBonds candidates
\* before mirroring
InitDetach ==
    /\ NoDist
    /\ NoUpd
    /\ NoGath
    /\ NoMore
    /\ numbers \in [1..NAtoms -> Species]
    /\ \E B \in SubsetsUpTo(Directed, MaxCopyBonds) :
          LET D == B \cup {Mirror(c) : c \in B}
          IN nl = [a \in 1..NAtoms |-> SetToSeq({c \in D : c[1] = a - 1})]
    /\ loc = [a \in 1..NAtoms |-> local(numbers, nl, a - 1)]
    /\ vop = "init"
    /\ det = NoDet

\* views are masked, then copied, and the copies are masked
NextDetach ==
    \/ \E x \in 0..(NAtoms - 1), a \in Species, b \in Species,
          bothways \in BOOLEAN : Select(x, a, b, bothways, TRUE)
    \/ \E x \in 0..(NAtoms - 1), keepids \in BOOLEAN : Detach(x, keepids)
    \/ \E x \in 0..(NAtoms - 1) : AsAtomsAsLocal(x)
    \/ \E a \in Species, b \in Species, bothways \in BOOLEAN :
          SelectDetached(a, b, bothways)

SpecDetach == InitDetach /\ [][NextDetach]_vars

\* ------------------------------------------------- nearest-neighbour order
\* the orders of 0..n-1: what np.random.permutation(n) and argsort draw from
permutation(n) ==
    {p \in [1..n -> 0..(n - 1)] : \A x, y \in 1..n : x # y => p[x] # p[y]}

\* self._r.norm(dim=1), squared: the squares order the candidates as the
\* norms do
norm2(r) == [k \in 1..Len(r) |-> r[k][1] * r[k][1] + r[k][2] * r[k][2]
                                  + r[k][3] * r[k][3]]

\* the results d.argsort() may give: 0-based positions in ascending order of
\* d, candidates of equal d in any order
argsort(d) ==
    {p \in permutation(Len(d)) :
        \A k \in 1..(Len(d) - 1) : d[p[k] + 1] <= d[p[k + 1] + 1]}

\* x[order]: the entries of x taken in the order of the 0-based positions
Take(x, order) == [k \in 1..Len(order) |-> x[order[k] + 1]]

\* mutant: the mask is applied without being reordered
nnUnsorted(x, m, order) == Masked(Take(x, order), m)

\* Local.nn and Local.nn_r: x[self._nn][self._m[self._nn]]
nn(x, m, order) == Masked(Take(x, order), Take(m, order))

\* the cache of a new view: self._d = None, self._argsort = None
NoCache == [_d |-> None, _argsort |-> None]

\* a configuration whose neighbour list holds up to MaxNNBonds candidates
\* of atom 0, mirrored
InitNN ==
    /\ NoDist
    /\ NoUpd
    /\ NoGath
    /\ NoLate
    /\ numbers \in [1..NAtoms -> Species]
    /\ \E B \in SubsetsUpTo({c \in Directed : c[1] = 0}, MaxNNBonds) :
          LET D == B \cup {Mirror(c) : c \in B}
          IN nl = [a \in 1..NAtoms |-> SetToSeq({c \in D : c[1] = a - 1})]
    /\ loc = [a \in 1..NAtoms |-> local(numbers, nl, a - 1)]
    /\ vop = "init"
    /\ det = NoDet
    /\ NoDesc
    /\ NoOwn
    /\ NoScr
    /\ cached = [a \in 1..NAtoms |-> NoCache]
    /\ nnout = [of |-> -1, nn |-> <<>>, nn_r |-> <<>>]

\* loc[x].nn and loc[x].nn_r are read: _nn fills the cache when it is empty
NN(x) ==
    /\ \E o \in (IF cached[x + 1]._argsort = None
                 THEN argsort(IF cached[x + 1]._d = None
                              THEN norm2(loc[x + 1]._r)
                              ELSE cached[x + 1]._d)
                 ELSE {cached[x + 1]._argsort}) :
          /\ cached' = [cached EXCEPT ![x + 1] =
                [_d |-> IF cached[x + 1]._argsort = None /\ cached[x + 1]._d = None
                        THEN norm2(loc[x + 1]._r) ELSE cached[x + 1]._d,
                 _argsort |-> o]]
          /\ nnout' = [of |-> x,
                       nn |-> nn(loc[x + 1]._j, loc[x + 1]._m, o),
                       nn_r |-> nn(loc[x + 1]._r, loc[x + 1]._m, o)]
    /\ vop' = "nn"
    /\ UNCHANGED <<numbers, nl, loc, det>>
    /\ UNCHANGED <<distVars, updVars, gathVars, descVars, ownVars, scrVars,
                   lateVars>>

\* the view of atom 0, which holds the candidates, is masked and read
NextNN ==
    \/ \E a \in Species, b \in Species, bothways \in BOOLEAN :
          Select(0, a, b, bothways, TRUE)
    \/ Unselect(0)
    \/ NN(0)

SpecNN == InitNN /\ [][NextNN]_vars

\* ------------------------------------------------------ feature generators
\* the names feature generators are given
DescNames == {"pair", "soap", "trip"}

\* the names of a list of feature generators are pairwise distinct:
\* len(set(names)) == len(self.descriptors)
DistinctNames(ds) == Cardinality(SeqRange(ds)) = Len(ds)

\* TorchAtoms(descriptors=ds) or TorchAtoms(cutoff=rc, descriptors=ds) with
\* a list of distinctly named feature generators
InitDesc ==
    /\ NoDist
    /\ NoView
    /\ NoUpd
    /\ NoGath
    /\ NoLate
    /\ NoNN
    /\ NoOwn
    /\ NoScr
    /\ names \in {ds \in SeqsUpTo(DescNames, MaxDescs) : DistinctNames(ds)}
    /\ has_cutoff \in BOOLEAN
    /\ dop = [name |-> "init", err |-> "none"]

\* TorchAtoms.stage: the loop over self.loc, an attribute only update sets
stage == IF has_cutoff THEN "none" ELSE "AttributeError"

\* the list set_descriptors(ds) leaves in self.descriptors
set_descriptors(old, ds) == ds

\* set_descriptors(ds, stage=st) with ds a list
SetDescriptors(ds, st) ==
    /\ names' = set_descriptors(names, ds)
    /\ dop' = [name |-> "set_descriptors", err |-> IF st THEN stage ELSE "none"]
    /\ UNCHANGED has_cutoff
    /\ UNCHANGED <<distVars, viewVars, updVars, gathVars, nnVars, ownVars,
                   scrVars, lateVars>>

\* add_descriptors(ds, stage=st) with ds a list: the new list is stored
\* before the names are compared
AddDescriptors(ds, st) ==
    /\ Len(names) + Len(ds) <= MaxDescs
    /\ names' = names \o ds
    /\ dop' = [name |-> "add_descriptors",
               err |-> IF ~DistinctNames(names \o ds) THEN "RuntimeError"
                       ELSE IF st THEN stage ELSE "none"]
    /\ UNCHANGED has_cutoff
    /\ UNCHANGED <<distVars, viewVars, updVars, gathVars, nnVars, ownVars,
                   scrVars, lateVars>>

\* update(descriptors=ds): a list that is not empty is stored and forces the
\* update, which needs the neighbour list; with an empty list and nothing
\* changed the call does nothing
UpdateDescriptors(ds) ==
    /\ names' = IF ds # <<>> THEN ds ELSE names
    /\ dop' = [name |-> "update",
               err |-> IF ds # <<>> /\ ~has_cutoff THEN "AttributeError"
                       ELSE "none"]
    /\ UNCHANGED has_cutoff
    /\ UNCHANGED <<distVars, viewVars, updVars, gathVars, nnVars, ownVars,
                   scrVars, lateVars>>

NextDesc ==
    \/ \E ds \in SeqsUpTo(DescNames, MaxDescs), st \in BOOLEAN :
          SetDescriptors(ds, st)
    \/ \E ds \in SeqsUpTo(DescNames, MaxDescs), st \in BOOLEAN :
          AddDescriptors(ds, st)
    \/ \E ds \in SeqsUpTo(DescNames, MaxDescs) : UpdateDescriptors(ds)

SpecDesc == InitDesc /\ [][NextDesc]_vars

\* -------------------------------------------- AtomsChanges and update
\* coordinates and cell entries, in units of 1e-8 (the atol of np.allclose)
PosVals == {0, 1, 3}

\* the cutoff handed to the constructor and to update (0 stands for None)
Cutoffs == {0, 3}

\* range(n) as a list
RangeList(n) == [k \in 1..n |-> k - 1]

\* mutant: atol is two units
CloseWide(a, b) == 100000 * Abs(a - b) <= 200000 + Abs(b)

\* np.allclose(a, b) for two numbers: |a - b| <= atol + rtol * |b| with
\* atol = 1e-8 (one unit) and rtol = 1e-5
Close(a, b) == 100000 * Abs(a - b) <= 100000 + Abs(b)

\* np.allclose(x, y) on two arrays with one row per atom: rows are broadcast
\* when one array has a single row, other shape mismatches raise ValueError
AllClose(x, y) ==
    IF Len(x) = Len(y) THEN
        IF \A k \in 1..Len(x) : Close(x[k], y[k]) THEN "True" ELSE "False"
    ELSE IF Len(x) = 1 THEN
        IF \A k \in 1..Len(y) : Close(x[1], y[k]) THEN "True" ELSE "False"
    ELSE IF Len(y) = 1 THEN
        IF \A k \in 1..Len(x) : Close(x[k], y[1]) THEN "True" ELSE "False"
    ELSE "ValueError"

\* mutant: the positions are not copied into the snapshot
update_references_nopos(r) ==
    [_natoms |-> Len(r.numbers), _numbers |-> r.numbers,
     _positions |-> [k \in 1..Len(r.positions) |-> 0], _cell |-> r.cell,
     _pbc |-> r.pbc, _descriptors |-> r.descriptors]

\* AtomsChanges.update_references
update_references(r) ==
    [_natoms |-> Len(r.numbers), _numbers |-> r.numbers,
     _positions |-> r.positions, _cell |-> r.cell, _pbc |-> r.pbc,
     _descriptors |-> r.descriptors]

\* AtomsChanges.natoms
changes_natoms(c, r) == Len(r.numbers) # c._natoms

\* AtomsChanges.atomic_numbers (read only when the counts agree)
changes_atomic_numbers(c, r) ==
    \E k \in 1..Len(r.numbers) : r.numbers[k] # c._numbers[k]

\* AtomsChanges.numbers: self.natoms or self.atomic_numbers
changes_numbers(c, r) ==
    IF changes_natoms(c, r) THEN TRUE ELSE changes_atomic_numbers(c, r)

\* mutant: the not is missing
changes_positions_nonot(c, r) == AllClose(r.positions, c._positions)

\* AtomsChanges.positions: not np.allclose(...)
changes_positions(c, r) ==
    LET ac == AllClose(r.positions, c._positions)
    IN IF ac = "ValueError" THEN "ValueError"
       ELSE IF ac = "True" THEN "False" ELSE "True"

\* AtomsChanges.cell
changes_cell(c, r) == ~Close(r.cell, c._cell)

\* AtomsChanges.pbc
changes_pbc(c, r) == \E d \in 1..3 : r.pbc[d] # c._pbc[d]

\* AtomsChanges.atoms: any([numbers, positions, cell, pbc]); the list is
\* built first, so an exception of one entry is the outcome
changes_atoms(c, r) ==
    IF changes_positions(c, r) = "ValueError" THEN "ValueError"
    ELSE IF \/ changes_numbers(c, r)
            \/ changes_positions(c, r) = "True"
            \/ changes_cell(c, r)
            \/ changes_pbc(c, r)
         THEN "True" ELSE "False"

\* mutant: the view is given the index after its own
localOfNext(r, a, g) ==
    [index |-> a + 1, number |-> r.numbers[a + 1], all |-> TRUE, born |-> g]

\* the view TorchAtoms.local(a) builds, as far as update goes: its index, its
\* species, whether its mask is all true, and the rebuild it was made in
localOf(r, a, g) ==
    [index |-> a, number |-> r.numbers[a + 1], all |-> TRUE, born |-> g]

\* the geometry a neighbour list was last updated against
Geometry(r) == <<r.positions, r.cell, r.pbc>>

\* TorchAtoms(numbers=nums, cutoff=c): the snapshot is taken by AtomsChanges(self);
\* with a cutoff, build_nl and update(forced=True) follow
InitUpd ==
    /\ NoDist
    /\ NoView
    /\ NoGath
    /\ NoMore
    /\ \E nums \in SeqsUpTo(Species, MaxConfAtoms), c \in Cutoffs :
          LET r == [numbers |-> nums, positions |-> [k \in 1..Len(nums) |-> 0],
                    cell |-> 0, pbc |-> <<FALSE, FALSE, FALSE>>,
                    cutoff |-> c, descriptors |-> 0]
          IN /\ ref = r
             /\ changes = update_references(r)
             /\ nlist = IF c # 0
                        THEN [built |-> TRUE, radii |-> Len(nums), born |-> 0,
                              seen |-> Geometry(r)]
                        ELSE [built |-> FALSE, radii |-> 0, born |-> 0, seen |-> <<>>]
             /\ indices = IF c # 0 THEN RangeList(Len(nums)) ELSE <<>>
             /\ locs = IF c # 0
                       THEN [none |-> FALSE,
                             views |-> [k \in 1..Len(nums) |-> localOf(r, k - 1, 0)]]
                       ELSE [none |-> TRUE, views |-> <<>>]
    /\ gen = 0
    /\ edits = 0
    /\ uop = [name |-> "init", asked |-> FALSE, build_locals |-> TRUE]
    /\ uerr = "none"

\* the name of an operation on the configuration; for update, whether the
\* arguments ask for work (a cutoff, descriptors or forced) and build_locals
OpOf(name) == [name |-> name, asked |-> FALSE, build_locals |-> TRUE]

\* TorchAtoms.update(cutoff, descriptors, forced, build_locals)
Update(cutoff, descriptors, forced, build_locals) ==
    LET \* if cutoff or self.changes.numbers: build_nl(...); forced = True
        nb == cutoff # 0 \/ changes_numbers(changes, ref)
        rc == IF cutoff # 0 THEN cutoff ELSE ref.cutoff
        g == 1 - gen
        nl1 == IF nb THEN [built |-> TRUE, radii |-> Len(ref.numbers),
                           born |-> g, seen |-> <<>>]
               ELSE nlist
        ref1 == IF nb THEN [ref EXCEPT !.cutoff = rc] ELSE ref
        ind1 == IF nb THEN RangeList(Len(ref.numbers)) ELSE indices
        \* if descriptors: self.descriptors = descriptors; forced = True
        ref2 == IF descriptors # 0 THEN [ref1 EXCEPT !.descriptors = descriptors]
                ELSE ref1
        f == forced \/ nb \/ descriptors # 0
        \* if forced or self.changes.atoms:
        chg == IF f THEN "True" ELSE changes_atoms(changes, ref2)
    IN /\ uop' = [name |-> "update",
                  asked |-> (forced \/ cutoff # 0 \/ descriptors # 0),
                  build_locals |-> build_locals]
       /\ IF nb /\ rc = 0
          THEN \* build_nl(None): rc / 2 raises before anything is assigned
               /\ uerr' = "TypeError"
               /\ UNCHANGED <<ref, changes, nlist, indices, locs, gen>>
          ELSE IF chg = "ValueError"
          THEN /\ uerr' = "ValueError"
               /\ ref' = ref2 /\ nlist' = nl1 /\ indices' = ind1
               /\ gen' = IF nb THEN g ELSE gen
               /\ UNCHANGED <<changes, locs>>
          ELSE IF chg = "True" /\ ~nl1.built
          THEN \* self.nl does not exist
               /\ uerr' = "AttributeError"
               /\ ref' = ref2
               /\ UNCHANGED <<changes, nlist, indices, locs, gen>>
          ELSE IF chg = "True"
          THEN /\ uerr' = "none"
               /\ ref' = ref2
               /\ nlist' = [nl1 EXCEPT !.seen = Geometry(ref2)]
               /\ indices' = ind1
               /\ locs' = IF build_locals
                          THEN [none |-> FALSE,
                                views |-> [k \in 1..Len(ind1) |->
                                              localOf(ref2, ind1[k], g)]]
                          ELSE [none |-> TRUE, views |-> <<>>]
               /\ changes' = update_references(ref2)
               /\ gen' = g
          ELSE /\ uerr' = "none"
               /\ UNCHANGED <<ref, changes, nlist, indices, locs, gen>>
    /\ UNCHANGED edits
    /\ UNCHANGED <<distVars, viewVars, gathVars, moreVars>>

\* an edit of the live configuration between two updates
Edited(name, r) ==
    /\ edits < MaxEdits
    /\ r # ref
    /\ ref' = r
    /\ edits' = edits + 1
    /\ uop' = OpOf(name)
    /\ uerr' = "none"
    /\ UNCHANGED <<changes, nlist, indices, locs, gen>>
    /\ UNCHANGED <<distVars, viewVars, gathVars, moreVars>>

\* atoms.positions[k] = v
SetPosition(k, v) ==
    /\ k \in 1..Len(ref.positions)
    /\ Edited("set_position", [ref EXCEPT !.positions[k] = v])

\* atoms.cell[...] = v
SetCell(v) ==
    /\ v \in PosVals
    /\ Edited("set_cell", [ref EXCEPT !.cell = v])

\* atoms.pbc[d] = not atoms.pbc[d]
SetPbc(d) ==
    /\ d \in 1..3
    /\ Edited("set_pbc", [ref EXCEPT !.pbc[d] = ~@])

\* atoms.numbers[k] = z
SetNumber(k, z) ==
    /\ k \in 1..Len(ref.numbers)
    /\ Edited("set_number", [ref EXCEPT !.numbers[k] = z])

\* atoms.extend(...): atoms of the species zs are appended at the origin
Extend(zs) ==
    /\ zs # <<>>
    /\ Len(ref.numbers) + Len(zs) <= MaxConfAtoms
    /\ Edited("extend", [ref EXCEPT !.numbers = @ \o zs,
                                    !.positions = @ \o [k \in 1..Len(zs) |-> 0]])

\* del atoms[-n:]: the last n atoms are removed
Truncate(n) ==
    /\ n \in 1..Len(ref.numbers)
    /\ Edited("truncate",
              [ref EXCEPT !.numbers = SubSeq(@, 1, Len(@) - n),
                          !.positions = SubSeq(@, 1, Len(@) - n)])

\* a select on view k that deselects a candidate
MaskView(k) ==
    /\ ~locs.none
    /\ k \in 1..Len(locs.views)
    /\ locs.views[k].all
    /\ locs' = [locs EXCEPT !.views[k].all = FALSE]
    /\ uop' = OpOf("select")
    /\ uerr' = "none"
    /\ UNCHANGED <<ref, changes, nlist, indices, gen, edits>>
    /\ UNCHANGED <<distVars, viewVars, gathVars, moreVars>>

NextUpd ==
    \/ \E cutoff \in Cutoffs, descriptors \in {0, 1}, forced \in BOOLEAN,
          build_locals \in BOOLEAN :
          Update(cutoff, descriptors, forced, build_locals)
    \/ \E k \in 1..MaxConfAtoms, v \in PosVals : SetPosition(k, v)
    \/ \E v \in PosVals : SetCell(v)
    \/ \E d \in 1..3 : SetPbc(d)
    \/ \E k \in 1..MaxConfAtoms, z \in Species : SetNumber(k, z)
    \/ \E zs \in SeqsUpTo(Species, 2) : Extend(zs)
    \/ \E n \in 1..MaxConfAtoms : Truncate(n)
    \/ \E k \in 1..MaxConfAtoms : MaskView(k)

SpecUpd == InitUpd /\ [][NextUpd]_vars

\* the farthest a coordinate drifts from the origin, in units of 1e-8
MaxDrift == 2

\* atoms.positions[k] += d with a step d that np.allclose does not tell from
\* no step at all
Drift(k, d) ==
    /\ k \in 1..Len(ref.positions)
    /\ Close(ref.positions[k] + d, ref.positions[k])
    /\ Abs(ref.positions[k] + d) <= MaxDrift
    /\ Edited("set_position", [ref EXCEPT !.positions[k] = @ + d])

\* small steps of the positions interleaved with update() calls that leave
\* every argument at its default
NextDrift ==
    \/ \E k \in 1..MaxConfAtoms, d \in {-1, 1} : Drift(k, d)
    \/ Update(0, 0, FALSE, TRUE)

SpecDrift == InitUpd /\ [][NextDrift]_vars

\* ------------------------------------------ index_distribute and gathered
\* the candidates of the neighbour list of the gathered configuration: a
\* chain 0 - 1 - 2 whose second bond crosses the cell
GatherBonds == {<<0, 1, <<0, 0, 0>>>>, <<1, 2, <<1, 0, 0>>>>}

\* balance_work(size, workers): contiguous (start, end) ranges of near-equal
\* length, the longer ones first
balance_work(size, w) ==
    LET a == size \div w
        b == size % w
        start(j) == j * a + (IF j < b THEN j ELSE b)
    IN [j \in 1..w |-> <<start(j - 1), start(j)>>]

\* the list [x for x in s if keep(x)], for the entries of s from k on
RECURSIVE IndicesOf(_, _, _)
IndicesOf(rk, rank, k) ==
    IF k > Len(rk) THEN <<>>
    ELSE IF rk[k] = rank THEN <<k - 1>> \o IndicesOf(rk, rank, k + 1)
    ELSE IndicesOf(rk, rank, k + 1)

\* mutant: the atom index is compared with the rank
RECURSIVE IndicesOfIndex(_, _, _)
IndicesOfIndex(rk, rank, k) ==
    IF k > Len(rk) THEN <<>>
    ELSE IF k - 1 = rank THEN <<k - 1>> \o IndicesOfIndex(rk, rank, k + 1)
    ELSE IndicesOfIndex(rk, rank, k + 1)

\* mutant of index_distribute
index_distribute_byindex(dist, rk, rank, w, natoms, off, perm) ==
    IF dist
    THEN IF rk # None /\ rk # <<>>
         THEN IndicesOfIndex(rk, rank, 1)
         ELSE LET ind == balance_work(natoms, w)
                  mine == ind[((rank + off) % w) + 1]
              IN [k \in 1..(mine[2] - mine[1]) |-> perm[mine[1] + k]]
    ELSE RangeList(natoms)

\* TorchAtoms.index_distribute(randomize=True) on the process of a rank, with
\* the draws off = np.random.randint(1024) and perm = np.random.permutation
index_distribute(dist, rk, rank, w, natoms, off, perm) ==
    IF dist
    THEN IF rk # None /\ rk # <<>>
         THEN IndicesOf(rk, rank, 1)
         ELSE LET ind == balance_work(natoms, w)
                  mine == ind[((rank + off) % w) + 1]
              IN [k \in 1..(mine[2] - mine[1]) |-> perm[mine[1] + k]]
    ELSE RangeList(natoms)

\* what gathered() has given a rank: nothing yet
NoResult == [state |-> "none", loc |-> <<>>]

\* every rank of the group holds the same configuration; index_distribute
\* has not run yet; loc holds the views a process that is not distributed
\* builds
InitGather ==
    /\ NoDist
    /\ NoUpd
    /\ NoMore
    /\ numbers \in [1..NAtoms -> Species]
    /\ LET D == GatherBonds \cup {Mirror(c) : c \in GatherBonds}
       IN nl = [a \in 1..NAtoms |-> SetToSeq({c \in D : c[1] = a - 1})]
    /\ loc = [a \in 1..NAtoms |-> local(numbers, nl, a - 1)]
    /\ vop = "init"
    /\ det = NoDet
    /\ workers \in 1..MaxRanks
    /\ is_distributed \in BOOLEAN
    /\ ranks \in {None} \cup [1..NAtoms -> 0..(workers - 1)]
    /\ owned = [r \in 1..workers |-> <<>>]
    /\ held = [r \in 1..workers |-> <<>>]
    /\ gpc = [r \in 1..workers |-> "new"]
    /\ pickled = [r \in 1..workers |-> 0]
    /\ folder = [i \in 0..(NAtoms - 1) |-> <<>>]
    /\ arrived = {}
    /\ gathered = [r \in 1..workers |-> NoResult]

\* build_nl and update on rank r: index_distribute with the draws of that
\* process, then one view per owned index
IndexDistribute(r) ==
    /\ r \in 1..workers
    /\ gpc[r] = "new"
    /\ \E off \in 0..(workers - 1), perm \in permutation(NAtoms) :
          LET ind == index_distribute(is_distributed, ranks, r - 1, workers,
                                      NAtoms, off, perm)
          IN /\ owned' = [owned EXCEPT ![r] = ind]
             /\ held' = [held EXCEPT ![r] =
                            [k \in 1..Len(ind) |-> local(numbers, nl, ind[k])]]
    /\ gpc' = [gpc EXCEPT ![r] = "call"]
    /\ UNCHANGED <<workers, is_distributed, ranks, pickled, folder, arrived,
                   gathered>>
    /\ UNCHANGED <<distVars, viewVars, updVars, moreVars>>

\* mutant: the number of held views is not tested
GatheredAlwaysPickles(r) ==
    /\ r \in 1..workers
    /\ gpc[r] = "call"
    /\ IF is_distributed
       THEN /\ gpc' = [gpc EXCEPT ![r] = "pickle"]
            /\ UNCHANGED gathered
       ELSE /\ gathered' = [gathered EXCEPT ![r] = [state |-> "returned",
                                                    loc |-> held[r]]]
            /\ gpc' = [gpc EXCEPT ![r] = "done"]
    /\ UNCHANGED <<workers, is_distributed, ranks, owned, held, pickled, folder,
                   arrived>>
    /\ UNCHANGED <<distVars, viewVars, updVars, moreVars>>

\* gathered() is entered on rank r: the test of the if, and the else branch
Gathered(r) ==
    /\ r \in 1..workers
    /\ gpc[r] = "call"
    /\ IF is_distributed /\ Len(held[r]) < NAtoms
       THEN /\ gpc' = [gpc EXCEPT ![r] = "pickle"]
            /\ UNCHANGED gathered
       ELSE /\ gathered' = [gathered EXCEPT ![r] = [state |-> "returned",
                                                    loc |-> held[r]]]
            /\ gpc' = [gpc EXCEPT ![r] = "done"]
    /\ UNCHANGED <<workers, is_distributed, ranks, owned, held, pickled, folder,
                   arrived>>
    /\ UNCHANGED <<distVars, viewVars, updVars, moreVars>>

\* pickle_locals: torch.save(loc, "loc_{loc.index}.pckl") for the next view
PickleLocal(r) ==
    /\ r \in 1..workers
    /\ gpc[r] = "pickle"
    /\ pickled[r] < Len(held[r])
    /\ LET v == held[r][pickled[r] + 1]
       IN folder' = [folder EXCEPT ![v.index] = <<v>>]
    /\ pickled' = [pickled EXCEPT ![r] = @ + 1]
    /\ UNCHANGED <<workers, is_distributed, ranks, owned, held, gpc, arrived,
                   gathered>>
    /\ UNCHANGED <<distVars, viewVars, updVars, moreVars>>

\* mutant: the barrier is entered before the loop of pickle_locals is over
DonePicklingEarly(r) == pickled[r] <= Len(held[r])

\* the loop of pickle_locals is over
DonePickling(r) == pickled[r] = Len(held[r])

\* dist.barrier() is called on rank r
BarrierEnter(r) ==
    /\ r \in 1..workers
    /\ gpc[r] = "pickle"
    /\ DonePickling(r)
    /\ arrived' = arrived \cup {r}
    /\ gpc' = [gpc EXCEPT ![r] = "barrier"]
    /\ UNCHANGED <<workers, is_distributed, ranks, owned, held, pickled, folder,
                   gathered>>
    /\ UNCHANGED <<distVars, viewVars, updVars, moreVars>>

\* dist.barrier() returns on rank r: every rank of the group has called it
BarrierLeave(r) ==
    /\ r \in 1..workers
    /\ gpc[r] = "barrier"
    /\ arrived = 1..workers
    /\ gpc' = [gpc EXCEPT ![r] = "load"]
    /\ UNCHANGED <<workers, is_distributed, ranks, owned, held, pickled, folder,
                   arrived, gathered>>
    /\ UNCHANGED <<distVars, viewVars, updVars, moreVars>>

\* pickles(): torch.load("loc_{i}.pckl") for i in range(self.natoms); a file
\* that is not there raises FileNotFoundError
Pickles(r) ==
    /\ r \in 1..workers
    /\ gpc[r] = "load"
    /\ gathered' = [gathered EXCEPT ![r] =
          IF \A i \in 0..(NAtoms - 1) : folder[i] # <<>>
          THEN [state |-> "returned",
                loc |-> [k \in 1..NAtoms |-> folder[k - 1][1]]]
          ELSE [state |-> "FileNotFoundError", loc |-> <<>>]]
    /\ gpc' = [gpc EXCEPT ![r] = "done"]
    /\ UNCHANGED <<workers, is_distributed, ranks, owned, held, pickled, folder,
                   arrived>>
    /\ UNCHANGED <<distVars, viewVars, updVars, moreVars>>

\* every rank calls gathered() once
NextGather ==
    \/ \E r \in 1..MaxRanks : IndexDistribute(r)
    \/ \E r \in 1..MaxRanks : Gathered(r)
    \/ \E r \in 1..MaxRanks : PickleLocal(r)
    \/ \E r \in 1..MaxRanks : BarrierEnter(r)
    \/ \E r \in 1..MaxRanks : BarrierLeave(r)
    \/ \E r \in 1..MaxRanks : Pickles(r)

SpecGather == InitGather /\ [][NextGather]_vars

\* ------------------------------------- process groups, gather_, distribute_
\* the indices index_distribute may leave on rank r, over the draws of the
\* offset and of the permutation
Drawn(r, dist) ==
    {index_distribute(dist, explicit, r - 1, world, OwnAtoms, off, perm) :
        off \in 0..(world - 1), perm \in permutation(OwnAtoms)}

\* one call of index_distribute on every rank, each with its own draws
Draws(dist) ==
    LET D == [r \in 1..world |-> Drawn(r, dist[r])]
    IN {d \in [1..world -> UNION {D[r] : r \in 1..world}] :
           \A r \in 1..world : d[r] \in D[r]}

\* self.loc: a list of views, or None
Loc(list) == [none |-> FALSE, list |-> list]
NoLoc == [none |-> TRUE, list |-> <<>>]

\* what copy() has given a rank: nothing yet
NoCopy == [indices |-> None, err |-> "none"]

\* the call of a rank returned; a rank whose call raised or hangs has left
\* the program
Running(r) == status[r] = "none"

\* TorchAtoms(cutoff=rc, ranks=explicit) or TorchAtoms(cutoff=rc,
\* ranks=explicit, group=g) on every rank: build_nl draws the indices and
\* update(forced=True) builds their views
InitOwn ==
    /\ NoDist
    /\ NoView
    /\ NoUpd
    /\ NoGath
    /\ NoLate
    /\ NoNN
    /\ NoDesc
    /\ NoScr
    /\ world \in 1..MaxRanks
    /\ explicit \in {None} \cup [1..OwnAtoms -> 0..(world - 1)]
    /\ \E g \in BOOLEAN : \E d \in Draws([r \in 1..world |-> g]) :
          /\ process_group = [r \in 1..world |-> g]
          /\ distributed = [r \in 1..world |-> g]
          /\ own = [r \in 1..world |-> d[r]]
    /\ views = [r \in 1..world |-> Loc(own[r])]
    /\ status = [r \in 1..world |-> "none"]
    /\ files = {}
    /\ oop = "init"
    /\ copied = [r \in 1..world |-> NoCopy]
    /\ calls = 0

\* every rank may make its next call: none hangs in a barrier
MayCall ==
    /\ calls < MaxCalls
    /\ \A r \in 1..world : status[r] # "blocked"
    /\ \E r \in 1..world : Running(r)

\* update(cutoff, forced, build_locals) on every rank, after an edit of the
\* configuration: a cutoff or changed numbers rebuild the neighbour list,
\* which draws the indices again; a forced update or a change rebuilds the
\* views of the indices
UpdateOwn(cutoff, changed, forced, build_locals) ==
    /\ MayCall
    /\ \E d \in (IF cutoff \/ changed = "numbers" THEN Draws(distributed)
                 ELSE {own}) :
          LET rebuild == cutoff \/ changed = "numbers"
              ind(r) == IF rebuild THEN d[r] ELSE own[r]
          IN /\ own' = [r \in 1..world |-> IF Running(r) THEN ind(r) ELSE own[r]]
             /\ views' = [r \in 1..world |->
                   IF Running(r) /\ (forced \/ rebuild \/ changed = "atoms")
                   THEN IF build_locals THEN Loc(ind(r)) ELSE NoLoc
                   ELSE views[r]]
    /\ oop' = "update"
    /\ calls' = calls + 1
    /\ UNCHANGED <<world, explicit, process_group, distributed, status, files,
                   copied>>
    /\ UNCHANGED <<distVars, viewVars, updVars, gathVars, nnVars, descVars,
                   scrVars, lateVars>>

\* attach_process_group(group) on every rank
AttachProcessGroup ==
    /\ MayCall
    /\ \E d \in Draws([r \in 1..world |-> TRUE]) :
          own' = [r \in 1..world |-> IF Running(r) THEN d[r] ELSE own[r]]
    /\ process_group' = [r \in 1..world |-> Running(r) \/ process_group[r]]
    /\ distributed' = [r \in 1..world |-> Running(r) \/ distributed[r]]
    /\ oop' = "attach_process_group"
    /\ calls' = calls + 1
    /\ UNCHANGED <<world, explicit, views, status, files, copied>>
    /\ UNCHANGED <<distVars, viewVars, updVars, gathVars, nnVars, descVars,
                   scrVars, lateVars>>

\* detach_process_group() on every rank: del self.process_group raises
\* AttributeError on a configuration without a group
DetachProcessGroup ==
    /\ MayCall
    /\ status' = [r \in 1..world |->
          IF Running(r) /\ ~process_group[r] THEN "AttributeError" ELSE status[r]]
    /\ process_group' = [r \in 1..world |-> ~Running(r) /\ process_group[r]]
    /\ distributed' = [r \in 1..world |->
          IF Running(r) /\ process_group[r] THEN FALSE ELSE distributed[r]]
    /\ own' = [r \in 1..world |->
          IF Running(r) /\ process_group[r] THEN RangeList(OwnAtoms) ELSE own[r]]
    /\ oop' = "detach_process_group"
    /\ calls' = calls + 1
    /\ UNCHANGED <<world, explicit, views, files, copied>>
    /\ UNCHANGED <<distVars, viewVars, updVars, gathVars, nnVars, descVars,
                   scrVars, lateVars>>

\* the ranks whose gathered() takes the branch with the barrier
Pickling == {r \in 1..world :
                Running(r) /\ distributed[r] /\ ~views[r].none
                /\ Len(views[r].list) < OwnAtoms}

\* gather_() on every rank: self.loc = self.gathered(), then
\* detach_process_group(). The ranks in Pickling write their views, meet at
\* the barrier, which returns once every rank of the group has called it,
\* and read the file of every atom
Gather_ ==
    /\ MayCall
    /\ LET written == files \cup UNION {SeqRange(views[r].list) : r \in Pickling}
           hang == Pickling # {} /\ Pickling # 1..world
           missing == \E i \in 0..(OwnAtoms - 1) : i \notin written
           \* how gathered() ends on rank r
           end(r) == IF r \in Pickling
                     THEN IF hang THEN "blocked"
                          ELSE IF missing THEN "FileNotFoundError" ELSE "none"
                     ELSE IF distributed[r] /\ views[r].none THEN "TypeError"
                     ELSE "none"
           \* gathered() returned and detach_process_group() follows
           returned(r) == Running(r) /\ end(r) = "none"
       IN /\ files' = written
          /\ views' = [r \in 1..world |->
                IF returned(r) /\ r \in Pickling THEN Loc(RangeList(OwnAtoms))
                ELSE views[r]]
          /\ status' = [r \in 1..world |->
                IF ~Running(r) THEN status[r]
                ELSE IF end(r) # "none" THEN end(r)
                ELSE IF ~process_group[r] THEN "AttributeError" ELSE "none"]
          /\ process_group' = [r \in 1..world |-> ~returned(r) /\ process_group[r]]
          /\ distributed' = [r \in 1..world |->
                IF returned(r) /\ process_group[r] THEN FALSE ELSE distributed[r]]
          /\ own' = [r \in 1..world |->
                IF returned(r) /\ process_group[r] THEN RangeList(OwnAtoms) ELSE own[r]]
    /\ oop' = "gather_"
    /\ calls' = calls + 1
    /\ UNCHANGED <<world, explicit, copied>>
    /\ UNCHANGED <<distVars, viewVars, updVars, gathVars, nnVars, descVars,
                   scrVars, lateVars>>

\* [self.loc[i] for i in self.indices]
narrow(l, ind) == [k \in 1..Len(ind) |-> l[ind[k] + 1]]

\* distribute_(group) on every rank: attach_process_group(group), then
\* self.loc = [self.loc[i] for i in self.indices]
Distribute_ ==
    /\ MayCall
    /\ \E d \in Draws([r \in 1..world |-> TRUE]) :
          LET ind(r) == d[r]
              end(r) == IF ind(r) = <<>> THEN "none"
                        ELSE IF views[r].none THEN "TypeError"
                        ELSE IF \E k \in 1..Len(ind(r)) :
                                   ind(r)[k] >= Len(views[r].list)
                        THEN "IndexError" ELSE "none"
          IN /\ own' = [r \in 1..world |-> IF Running(r) THEN ind(r) ELSE own[r]]
             /\ views' = [r \in 1..world |->
                   IF Running(r) /\ end(r) = "none"
                   THEN Loc(narrow(views[r].list, ind(r)))
                   ELSE views[r]]
             /\ status' = [r \in 1..world |->
                   IF Running(r) THEN end(r) ELSE status[r]]
    /\ process_group' = [r \in 1..world |-> Running(r) \/ process_group[r]]
    /\ distributed' = [r \in 1..world |-> Running(r) \/ distributed[r]]
    /\ oop' = "distribute_"
    /\ calls' = calls + 1
    /\ UNCHANGED <<world, explicit, files, copied>>
    /\ UNCHANGED <<distVars, viewVars, updVars, gathVars, nnVars, descVars,
                   scrVars, lateVars>>

\* copy(group=True) on every rank: the new configuration is given the rank
\* list, attach_process_group draws its indices, and the assertion compares
\* them with those of the original
Copy ==
    /\ MayCall
    /\ \E d \in Draws([r \in 1..world |-> TRUE]) :
          /\ copied' = [r \in 1..world |->
                IF ~Running(r) THEN copied[r]
                ELSE IF ~distributed[r]
                THEN [indices |-> RangeList(OwnAtoms), err |-> "none"]
                ELSE [indices |-> d[r],
                      err |-> IF d[r] = own[r] THEN "none"
                              ELSE "AssertionError"]]
          /\ status' = [r \in 1..world |->
                IF Running(r) /\ distributed[r] /\ d[r] # own[r]
                THEN "AssertionError" ELSE status[r]]
    /\ oop' = "copy"
    /\ calls' = calls + 1
    /\ UNCHANGED <<world, explicit, process_group, distributed, own, views,
                   files>>
    /\ UNCHANGED <<distVars, viewVars, updVars, gathVars, nnVars, descVars,
                   scrVars, lateVars>>

NextOwn ==
    \/ \E cutoff \in BOOLEAN, changed \in {"none", "atoms", "numbers"},
          forced \in BOOLEAN, build_locals \in BOOLEAN :
          UpdateOwn(cutoff, changed, forced, build_locals)
    \/ AttachProcessGroup
    \/ DetachProcessGroup
    \/ Gather_
    \/ Distribute_
    \/ Copy

SpecOwn == InitOwn /\ [][NextOwn]_vars

\* ------------------------------------------- gathers through a scratch root
\* the scratch roots: the default of every folder argument, and another one
Folders == {"atoms", "scratch"}

\* the calls that gather: on each configuration gathered(folder=root) or
\* gather_(folder=root), or AtomsData.gather_(folder=root) on the list
Entries == {"gathered", "gather_", "AtomsData.gather_"}

\* the root pickle_locals writes under: gathered hands its folder on, and
\* gather_ hands its folder to gathered; AtomsData.gather_ calls
\* atoms.gather_() without its folder
WriteRoot == IF entry = "AtomsData.gather_" THEN "atoms" ELSE root

\* the root pickles reads from: gathered calls self.pickles() without a folder
ReadRoot == "atoms"

\* the atoms whose views rank r holds of configuration c, which has an
\* explicit rank list
Held(c, r) == IndicesOf(X[c], r - 1, 1)

\* the view of atom i of configuration c
ViewOf(c, i) == <<c, i>>

\* no access to the scratch storage yet
NoAccess == [kind |-> "none", root |-> "none", atom |-> -1]

\* every rank of the group is about to gather a list of distributed
\* configurations of ScrAtoms atoms; the scratch storage is empty
InitScr ==
    /\ NoDist
    /\ NoView
    /\ NoUpd
    /\ NoGath
    /\ NoLate
    /\ NoNN
    /\ NoDesc
    /\ NoOwn
    /\ root \in Folders
    /\ entry \in Entries
    /\ \E w \in 1..MaxRanks :
          /\ X \in UNION {[1..n -> [1..ScrAtoms -> 0..(w - 1)]] : n \in 1..MaxConfs}
          /\ cur = [r \in 1..w |-> 1]
          /\ spc = [r \in 1..w |-> "call"]
          /\ nwritten = [r \in 1..w |-> 0]
          /\ got = [r \in 1..w |-> [c \in 1..Len(X) |-> <<>>]]
          /\ bar = [r \in 1..w |-> 0]
          /\ access = [r \in 1..w |-> NoAccess]
    /\ store = [f \in Folders |-> [i \in 1..ScrAtoms |-> <<>>]]

\* gathered() is entered on rank r for its next configuration: a rank that
\* holds every view returns its own list
ScrGathered(r) ==
    /\ r \in DOMAIN cur
    /\ cur[r] <= Len(X)
    /\ spc[r] = "call"
    /\ LET c == cur[r]
           h == Held(c, r)
       IN IF Len(h) < ScrAtoms
          THEN /\ spc' = [spc EXCEPT ![r] = "pickle"]
               /\ nwritten' = [nwritten EXCEPT ![r] = 0]
               /\ UNCHANGED <<cur, got>>
          ELSE /\ got' = [got EXCEPT ![r][c] = [k \in 1..Len(h) |-> ViewOf(c, h[k])]]
               /\ cur' = [cur EXCEPT ![r] = c + 1]
               /\ UNCHANGED <<spc, nwritten>>
    /\ UNCHANGED <<root, entry, X, store, bar, access>>
    /\ UNCHANGED <<distVars, viewVars, updVars, gathVars, nnVars, descVars,
                   ownVars, lateVars>>

\* pickle_locals: torch.save of the next view, under loc_{loc.index}
ScrPickleLocal(r) ==
    /\ r \in DOMAIN cur
    /\ spc[r] = "pickle"
    /\ nwritten[r] < Len(Held(cur[r], r))
    /\ LET i == Held(cur[r], r)[nwritten[r] + 1]
       IN /\ store' = [store EXCEPT ![WriteRoot][i + 1] = <<ViewOf(cur[r], i)>>]
          /\ access' = [access EXCEPT ![r] =
                [kind |-> "write", root |-> WriteRoot, atom |-> i]]
    /\ nwritten' = [nwritten EXCEPT ![r] = @ + 1]
    /\ UNCHANGED <<root, entry, X, cur, spc, got, bar>>
    /\ UNCHANGED <<distVars, viewVars, updVars, gathVars, nnVars, descVars,
                   ownVars, lateVars>>

\* dist.barrier() is called on rank r, after the loop of pickle_locals
ScrBarrierEnter(r) ==
    /\ r \in DOMAIN cur
    /\ spc[r] = "pickle"
    /\ nwritten[r] = Len(Held(cur[r], r))
    /\ bar' = [bar EXCEPT ![r] = @ + 1]
    /\ spc' = [spc EXCEPT ![r] = "barrier"]
    /\ UNCHANGED <<root, entry, X, store, cur, nwritten, got, access>>
    /\ UNCHANGED <<distVars, viewVars, updVars, gathVars, nnVars, descVars,
                   ownVars, lateVars>>

\* dist.barrier() returns on rank r: every rank has called the barrier as
\* many times as r has
ScrBarrierLeave(r) ==
    /\ r \in DOMAIN cur
    /\ spc[r] = "barrier"
    /\ \A q \in DOMAIN bar : bar[q] >= bar[r]
    /\ spc' = [spc EXCEPT ![r] = "load"]
    /\ UNCHANGED <<root, entry, X, store, cur, nwritten, got, bar, access>>
    /\ UNCHANGED <<distVars, viewVars, updVars, gathVars, nnVars, descVars,
                   ownVars, lateVars>>

\* pickles: torch.load of the file of the next atom; a file that is not
\* there raises FileNotFoundError, and after the last one gathered returns
ScrPickles(r) ==
    /\ r \in DOMAIN cur
    /\ spc[r] = "load"
    /\ LET c == cur[r]
           i == Len(got[r][c])
       IN /\ access' = [access EXCEPT ![r] =
                [kind |-> "read", root |-> ReadRoot, atom |-> i]]
          /\ IF store[ReadRoot][i + 1] = <<>>
             THEN /\ spc' = [spc EXCEPT ![r] = "FileNotFoundError"]
                  /\ UNCHANGED <<cur, got>>
             ELSE /\ got' = [got EXCEPT ![r][c] = Append(@, store[ReadRoot][i + 1][1])]
                  /\ cur' = [cur EXCEPT ![r] = IF i + 1 = ScrAtoms THEN c + 1 ELSE c]
                  /\ spc' = [spc EXCEPT ![r] = IF i + 1 = ScrAtoms THEN "call" ELSE "load"]
    /\ UNCHANGED <<root, entry, X, store, nwritten, bar>>
    /\ UNCHANGED <<distVars, viewVars, updVars, gathVars, nnVars, descVars,
                   ownVars, lateVars>>

NextScr ==
    \/ \E r \in 1..MaxRanks : ScrGathered(r)
    \/ \E r \in 1..MaxRanks : ScrPickleLocal(r)
    \/ \E r \in 1..MaxRanks : ScrBarrierEnter(r)
    \/ \E r \in 1..MaxRanks : ScrBarrierLeave(r)
    \/ \E r \in 1..MaxRanks : ScrPickles(r)

SpecScr == InitScr /\ [][NextScr]_vars
\* ------------------------------------------------ Qlvar (calculator/meta.py)
\* np.where(numbers == z)[0]: the indices of the atoms of species z, ascending
RECURSIVE whereFrom(_, _, _)
whereFrom(nums, z, k) ==
    IF k > Len(nums) THEN <<>>
    ELSE (IF nums[k] = z THEN <<k - 1>> ELSE <<>>) \o whereFrom(nums, z, k + 1)

where(nums, z) == whereFrom(nums, z, 1)

\* numbers[i] of an array: a negative index counts from the end, an index
\* outside -n..n-1 raises IndexError
InRange(nums, i) == -Len(nums) <= i /\ i < Len(nums)

At(nums, i) == IF i < 0 THEN nums[Len(nums) + i + 1] ELSE nums[i + 1]

\* mutant: the species at the index is not compared with self.i
__call__unchecked(self, nums) ==
    LET found == where(nums, self.i)
    IN IF ~self.fixed /\ found = <<>>
       THEN [raised |-> "IndexError", named |-> <<>>, ql |-> <<>>]
       ELSE LET i == IF self.fixed THEN self.index ELSE found[1]
            IN IF ~InRange(nums, i)
               THEN [raised |-> "IndexError", named |-> <<>>, ql |-> <<>>]
               ELSE [raised |-> "none", named |-> <<>>, ql |-> <<i, self.j>>]

\* Qlvar.__call__(numbers, ...): the error it raises with the index and the
\* species its message names, or the atom and the species of the environment
\* ql is computed for
__call__(self, nums) ==
    LET found == where(nums, self.i)
    IN IF ~self.fixed /\ found = <<>>
       THEN \* np.where(...)[0][0] on an empty array
            [raised |-> "IndexError", named |-> <<>>, ql |-> <<>>]
       ELSE LET i == IF self.fixed THEN self.index ELSE found[1]
            IN IF ~InRange(nums, i)
               THEN [raised |-> "IndexError", named |-> <<>>, ql |-> <<>>]
               ELSE IF At(nums, i) # self.i
               THEN [raised |-> "RuntimeError", named |-> <<i, self.i>>,
                     ql |-> <<>>]
               ELSE [raised |-> "none", named |-> <<>>, ql |-> <<i, self.j>>]

\* a configuration of up to MaxQlAtoms atoms, no variable constructed yet
InitQl ==
    /\ NoDist
    /\ NoView
    /\ NoUpd
    /\ NoGath
    /\ NoNN
    /\ NoDesc
    /\ NoOwn
    /\ NoScr
    /\ NoRound
    /\ NoSel
    /\ qnumbers \in SeqsUpTo(Species, MaxQlAtoms)
    /\ qvar = NoVar
    /\ qout = NoOut
    /\ qop = "none"

\* Qlvar(i, j, index): index None is fixed = FALSE
QlvarInit(i, j, fixed, index) ==
    /\ qvar' = [i |-> i, j |-> j, fixed |-> fixed, index |-> index]
    /\ qout' = NoOut
    /\ qop' = "init"
    /\ UNCHANGED qnumbers
    /\ UNCHANGED <<distVars, viewVars, updVars, gathVars, nnVars, descVars,
                   ownVars, scrVars, roundVars, selVars>>

\* the variable is called on the configuration
QlvarCall ==
    /\ qop # "none"
    /\ qout' = __call__(qvar, qnumbers)
    /\ qop' = "call"
    /\ UNCHANGED <<qnumbers, qvar>>
    /\ UNCHANGED <<distVars, viewVars, updVars, gathVars, nnVars, descVars,
                   ownVars, scrVars, roundVars, selVars>>

NextQl ==
    \/ \E i \in Species, j \in Species : QlvarInit(i, j, FALSE, 0)
    \/ \E i \in Species, j \in Species, index \in (-MaxQlAtoms)..MaxQlAtoms :
          QlvarInit(i, j, TRUE, index)
    \/ QlvarCall

SpecQl == InitQl /\ [][NextQl]_vars


\* ----------------------------------------------------- balancer properties
Spread(s) == MaxOf(SeqRange(s)) - MinOf(SeqRange(s))

\* C1: while only one species has been seen by assign, the per-rank counts of
\* that species differ by at most one, also between the atoms of one call.
C1_SingleSpeciesSpread ==
    \A z \in DOMAIN loads : (DOMAIN loads = {z}) => Spread(loads[z]) <= 1

C1_Witness ==
    /\ world_size >= 2
    /\ DOMAIN loads = {10}
    /\ pc = "call" /\ Len(call) = 1 /\ Len(atoms.numbers) = 2
    /\ SumSeq(loads[10]) > world_size

\* C2: the counters add up: the totals sum to the number of counted atoms,
\* each species vector sums to the counted atoms of that species, and
\* total[r] is the sum over the species of loads[z][r].
C2_Conservation ==
    /\ SumSeq(total) = SumOver(Species, counted)
    /\ \A z \in Species :
          counted[z] = IF z \in DOMAIN loads THEN SumSeq(loads[z]) ELSE 0
    /\ \A r \in 1..world_size :
          total[r] = SumOver(DOMAIN loads, [z \in DOMAIN loads |-> loads[z][r]])

C2_Witness ==
    /\ DOMAIN loads = Species
    /\ \A z \in Species : counted[z] >= 1
    /\ SumOver(Species, counted) >= 3
    /\ world_size >= 2

\* (total[r], loads[z][r], r) is the least key among the ranks
IsLexMin(r, tt, lz) ==
    \A q \in 0..(world_size - 1) :
        q # r =>
            \/ tt[r + 1] < tt[q + 1]
            \/ tt[r + 1] = tt[q + 1] /\ lz[r + 1] < lz[q + 1]
            \/ tt[r + 1] = tt[q + 1] /\ lz[r + 1] = lz[q + 1] /\ r < q

\* C3: each atom of a call gets the rank with the least (total, loads[species],
\* rank) on the counters as they stand, and both counters of that rank are
\* incremented before the next atom; a call on a configuration whose ranks
\* are set changes neither the configuration nor the counters.
C3_GreedyRule ==
    [][ /\ op' = "call_atom" =>
              LET z == atoms.numbers[Len(call) + 1]
                  lz == IF z \in DOMAIN loads THEN loads[z] ELSE Zeros
                  r == call'[Len(call')]
              IN /\ IsLexMin(r, total, lz)
                 /\ call' = Append(call, r)
                 /\ total' = [total EXCEPT ![r + 1] = @ + 1]
                 /\ loads'[z] = [lz EXCEPT ![r + 1] = @ + 1]
                 /\ \A y \in DOMAIN loads \ {z} : loads'[y] = loads[y]
        /\ op' = "call_begin" => atoms.ranks = None
        /\ (pc = "idle" /\ atoms.ranks # None /\ op' \in {"call_begin", "call_skip"}) =>
              /\ op' = "call_skip"
              /\ UNCHANGED <<atoms, loads, total>>
      ]_distVars

C3_Witness ==
    /\ op = "call_atom"
    /\ world_size >= 2
    /\ DOMAIN loads = Species
    /\ Len(call) = 2
    /\ SumSeq(total) >= 3
    /\ \E z \in Species : Spread(loads[z]) >= 1

\* the counters moved by sign for each of the first p atoms, and only so
AdjustedBy(sign, p) ==
    /\ DOMAIN loads' = DOMAIN loads
    /\ \A z \in DOMAIN loads : \A r \in 1..world_size :
          loads'[z][r] = loads[z][r]
                         + sign * CountAt(atoms.numbers, atoms.ranks, p, z, r - 1)
    /\ \A r \in 1..world_size :
          total'[r] = total[r]
                      + sign * Cardinality({k \in 1..p : atoms.ranks[k] = r - 1})

\* C4 as stated: upload and unload of a configuration (with at least one
\* atom) that return normally leave the rank assignment as it was.
C4_RanksKept ==
    [][ (op' \in {"upload", "unload"} /\ err' = "none" /\ atoms.numbers # <<>>) =>
            atoms'.ranks = atoms.ranks ]_distVars

\* C4 (amended): upload and unload give no atom a new rank and move the
\* counters by +1 / -1 for each atom they get through; upload leaves the
\* assignment as it was, an unload that completes clears it.
C4_AdjustOnly ==
    [][ /\ op' = "upload" =>
              /\ atoms' = atoms
              /\ AdjustedBy(1, Processed(loads, atoms.numbers))
        /\ op' = "unload" =>
              /\ AdjustedBy(-1, Processed(loads, atoms.numbers))
              /\ atoms'.numbers = atoms.numbers
              /\ atoms'.ranks = IF err' = "none" THEN None ELSE atoms.ranks
      ]_distVars

C4_Witness ==
    /\ op = "unload" /\ err = "none"
    /\ atoms.ranks = None
    /\ Len(atoms.numbers) = 2
    /\ \E r \in 1..world_size : total[r] < 0

\* C5: assign, load and unload complete without error, and every species
\* they met has a per-rank vector afterwards.
C5_TotalOperations ==
    op \in {"call_atom", "call_end", "upload", "unload"} =>
        /\ err = "none"
        /\ (pc = "idle") => SeqRange(atoms.numbers) \subseteq DOMAIN loads

\* ---------------------------------------------------------- view properties
\* the first non-zero component of o, in x, y, z order, is positive
FirstNonZeroPositive(o) ==
    \E d \in 1..3 : o[d] > 0 /\ \A e \in 1..(d - 1) : o[e] = 0

Cube == {<<a, b, c>> : a \in -LexRange..LexRange, b \in -LexRange..LexRange,
                       c \in -LexRange..LexRange}

\* lex3 is the tie-break, and of v and -v exactly one passes it
LexTieBreak ==
    \A v \in Cube \ {<<0, 0, 0>>} :
        /\ lex3(v) = FirstNonZeroPositive(v)
        /\ lex3(v) # lex3(Neg(v))

Views == 1..Len(loc)

AllTrue(v) == [k \in 1..Len(v._i) |-> TRUE]

\* C6: select(a, a, bothways=False) keeps candidate k iff the own species and
\* the species of k are a and (j_k > i, or j_k = i and the first non-zero
\* component of the offset of k is positive); of v and -v exactly one passes.
C6_SameSpeciesRule ==
    /\ LexTieBreak
    /\ \A x \in Views, a \in Species :
          LET v == loc[x]
              m == SelectMask(v, a, a, FALSE)
          IN /\ Len(m) = Len(v._j)
             /\ \A k \in 1..Len(m) :
                   m[k] <=> /\ v.number = a
                            /\ v._b[k] = a
                            /\ \/ v._j[k] > v.index
                               \/ v._j[k] = v.index /\ FirstNonZeroPositive(v.off[k])

C6_Witness ==
    /\ vop = "select"
    /\ \E x \in Views :
          /\ loc[x]._m = SelectMask(loc[x], loc[x].number, loc[x].number, FALSE)
          /\ \E k, l \in 1..Len(loc[x]._j) :
                /\ loc[x]._j[k] = loc[x].index /\ loc[x]._j[l] = loc[x].index
                /\ loc[x]._m[k] /\ ~loc[x]._m[l]
                /\ loc[x].off[k][1] = 0

\* the candidates of all views, as <<view, position>>
Cands == UNION {{<<x, k>> : k \in 1..Len(loc[x]._j)} : x \in Views}

\* d is the candidate (j, i, -off) of the candidate c = (i, j, off)
IsMirror(c, d) ==
    /\ loc[d[1]].index = loc[c[1]]._j[c[2]]
    /\ loc[d[1]]._j[d[2]] = loc[c[1]].index
    /\ loc[d[1]].off[d[2]] = Neg(loc[c[1]].off[c[2]])

\* the candidate set is bidirectional and holds no (i, i, 0)
Bidirectional ==
    \A c \in Cands :
        /\ Cardinality({d \in Cands : IsMirror(c, d)}) = 1
        /\ ~IsMirror(c, c)

SameSpecies(a) ==
    {c \in Cands : loc[c[1]].number = a /\ loc[c[1]]._b[c[2]] = a}

Kept(a) ==
    {c \in SameSpecies(a) : SelectMask(loc[c[1]], a, a, FALSE)[c[2]]}

\* C7: over the views of a bidirectional candidate set, select(a, a,
\* bothways=False) keeps exactly one candidate of each mirror pair, that is
\* half of the same-species candidates.
C7_ExactlyOnce ==
    Bidirectional =>
        \A a \in Species :
            /\ 2 * Cardinality(Kept(a)) = Cardinality(SameSpecies(a))
            /\ \A c \in SameSpecies(a), d \in Cands :
                  IsMirror(c, d) => ((c \in Kept(a)) # (d \in Kept(a)))

C7_Witness ==
    /\ vop = "select"
    /\ Bidirectional
    /\ \E a \in Species :
          /\ \A x \in Views : loc[x]._m = SelectMask(loc[x], a, a, FALSE)
          /\ Cardinality(SameSpecies(a)) = 4
          /\ \E c \in SameSpecies(a) : loc[c[1]]._j[c[2]] = loc[c[1]].index
          /\ \E c \in SameSpecies(a) : loc[c[1]]._j[c[2]] # loc[c[1]].index

\* C8: for a # b, select(a, b) keeps every candidate whose (own species,
\* candidate species) is (a, b), whatever its index and offset, and
\* select(a, b, bothways=True) those where it is (a, b) or (b, a).
C8_CrossSpecies ==
    \A x \in Views, a \in Species : \A b \in Species \ {a} :
        LET v == loc[x]
            m == SelectMask(v, a, b, FALSE)
            w == SelectMask(v, a, b, TRUE)
        IN /\ Len(m) = Len(v._j) /\ Len(w) = Len(v._j)
           /\ \A k \in 1..Len(v._j) :
                 /\ m[k] <=> (v.number = a /\ v._b[k] = b)
                 /\ w[k] <=> \/ v.number = a /\ v._b[k] = b
                             \/ v.number = b /\ v._b[k] = a

C8_Witness ==
    /\ vop = "select"
    /\ \E x \in Views :
          /\ Len(loc[x]._j) = 2
          /\ loc[x]._j[1] = loc[x]._j[2]
          /\ loc[x]._j[1] < loc[x].index
          /\ loc[x]._b[1] # loc[x].number
          /\ loc[x].off[1] = <<0, 0, 0>> \/ loc[x].off[2] = <<0, 0, 0>>
          /\ loc[x]._m = <<TRUE, TRUE>>
          /\ \E y \in Views : \E k \in 1..Len(loc[y]._m) : ~loc[y]._m[k]

\* the mask is as long as the candidate arrays, and these are as constructed
MaskInvariant ==
    \A x \in Views :
        /\ Len(loc[x]._m) = Len(loc[x]._j)
        /\ [loc[x] EXCEPT !._m = AllTrue(loc[x])] = local(numbers, nl, x - 1)

\* C9: the mask is as long as the candidate arrays, which stay as they were
\* constructed; it is all true after construction and after unselect;
\* select installs a computed mask, and with in_place=False it leaves the
\* active masks as they were.
C9_MaskInvariant ==
    /\ [](MaskInvariant /\ (vop = "init" => \A x \in Views : loc[x]._m = AllTrue(loc[x])))
    /\ [][ /\ vop' = "unselect" =>
                 \E x \in Views :
                     /\ \A y \in Views \ {x} : loc'[y] = loc[y]
                     /\ loc'[x]._m = AllTrue(loc[x])
           /\ vop' = "select" =>
                 \E x \in Views :
                     /\ \A y \in Views \ {x} : loc'[y] = loc[y]
                     /\ \E a \in Species, b \in Species, w \in BOOLEAN :
                           loc'[x]._m = SelectMask(loc[x], a, b, w)
           /\ vop' = "select_copy" => loc' = loc
         ]_vars

C9_Witness ==
    /\ vop = "select_copy"
    /\ \E x \in Views :
          /\ \E k, l \in 1..Len(loc[x]._m) : loc[x]._m[k] /\ ~loc[x]._m[l]
          /\ \E a \in Species, b \in Species, w \in BOOLEAN :
                SelectMask(loc[x], a, b, w) \notin {loc[x]._m, AllTrue(loc[x])}

\* the unmasked arrays of two views are element-wise identical
Identical(x, y) ==
    /\ x._i = y._i /\ x._j = y._j
    /\ x._a = y._a /\ x._b = y._b
    /\ x._r = y._r /\ _lex(x) = _lex(y)

\* C10: x == y holds iff the unmasked index, species, displacement and
\* tie-break arrays of x and y are element-wise identical, whatever the masks.
C10_EqIffIdentical ==
    vop = "eq" =>
        \A x \in Views, y \in Views :
            (EqLocal(loc[x], loc[y]) = "True") <=> Identical(loc[x], loc[y])

\* C11: a detached view holds exactly the candidates the mask selects
\* (species and displacements); detach() numbers the origin 0 and the
\* candidates 1..n, detach(keepids=True) keeps the indices; a select on the
\* copy leaves the original as it was.
C11_DetachMasked ==
    /\ vop = "detach" =>
          LET v == loc[det.from + 1]
              d == det.view
              n == Len(Masked(v._b, v._m))
          IN /\ d._b = Masked(v._b, v._m)
             /\ d._r = Masked(v._r, v._m)
             /\ det.how = "detach" =>
                   /\ d._i = [k \in 1..n |-> 0]
                   /\ d._j = [k \in 1..n |-> k]
             /\ det.how = "detach_keepids" =>
                   /\ d._i = Masked(v._i, v._m)
                   /\ d._j = Masked(v._j, v._m)
    /\ MaskInvariant

\* C12: for every view, with or without candidates, as_atoms().as_local()
\* returns a view that == finds equal to detach().
C12_RoundTrip ==
    vop = "as_local" =>
        /\ det.err = "none"
        /\ EqLocal(det.view, detach(loc[det.from + 1], FALSE)) = "True"

\* ------------------------------------------- change detector and update
\* the live count, species, positions, cell and flags equal the snapshot
SnapEq ==
    /\ changes._natoms = Len(ref.numbers)
    /\ changes._numbers = ref.numbers
    /\ changes._positions = ref.positions
    /\ changes._cell = ref.cell
    /\ changes._pbc = ref.pbc

\* the step is one change of the count, of one species entry, of one
\* position or of the cell beyond tolerance, or of one boundary flag
SingleChange ==
    \/ uop'.name \in {"extend", "truncate", "set_number", "set_pbc"}
    \/ /\ uop'.name = "set_position"
       /\ \E k \in 1..Len(ref.positions) :
             ~Close(ref'.positions[k], ref.positions[k])
    \/ uop'.name = "set_cell" /\ ~Close(ref'.cell, ref.cell)

\* C13: right after a snapshot changes.atoms is False, and after any single
\* change of the count, a species entry, a position or the cell beyond
\* tolerance, or a boundary flag it evaluates to True (it does not fail).
C13_ChangeDetector ==
    /\ [](SnapEq => changes_atoms(changes, ref) = "False")
    /\ [][(SnapEq /\ SingleChange) => changes_atoms(changes', ref') = "True"]_vars

\* the step is an update() that returns normally
UpdateReturns == uop'.name = "update" /\ uerr' = "none"

\* C14: update() without cutoff, without descriptors and not forced, on a
\* configuration equal to the snapshot, changes neither the neighbour list nor
\* the owned indices, the views (masks included) or the snapshot; so the
\* second of two updates in a row does nothing.
C14_NoOp ==
    /\ [][(uop'.name = "update" /\ ~uop'.asked /\ SnapEq) =>
             /\ uerr' = "none"
             /\ UNCHANGED <<ref, nlist, indices, locs, changes, gen>>]_vars
    /\ [][(uop.name = "update" /\ uerr = "none"
           /\ uop'.name = "update" /\ ~uop'.asked) =>
             /\ uerr' = "none"
             /\ UNCHANGED <<ref, nlist, indices, locs, changes, gen>>]_vars

C14_Witness ==
    /\ uop.name = "update" /\ ~uop.asked /\ uerr = "none"
    /\ SnapEq
    /\ edits >= 1
    /\ ~locs.none
    /\ \E k \in 1..Len(locs.views) : ~locs.views[k].all
    /\ Len(locs.views) = 2

\* one fresh view per owned index, in the order of the indices, with an
\* all-true mask
FreshViews ==
    /\ ~locs'.none
    /\ Len(locs'.views) = Len(indices')
    /\ \A k \in 1..Len(indices') :
          /\ locs'.views[k].index = indices'[k]
          /\ locs'.views[k].number = ref'.numbers[indices'[k] + 1]
          /\ locs'.views[k].all
          /\ locs'.views[k].born # gen

\* the neighbour list is a new one for the live atom count, and the owned
\* indices are recomputed
NewNeighbourList ==
    /\ nlist'.built
    /\ nlist'.born # gen
    /\ nlist'.radii = Len(ref'.numbers)
    /\ indices' = RangeList(Len(ref'.numbers))

\* C15 as stated: update with forced, a cutoff or descriptors, or on a
\* configuration that differs from the snapshot, returns with one fresh view
\* per owned index and a new snapshot; a count or species change rebuilds
\* the neighbour list and the owned indices as well.
C15_RebuildOnDifference ==
    [][(UpdateReturns /\ (uop'.asked \/ ~SnapEq)) =>
          /\ FreshViews
          /\ changes' = update_references(ref')
          /\ changes_numbers(changes, ref) => NewNeighbourList]_vars

\* C15 (amended): the same when forced, a cutoff or descriptors are given or
\* the detector reports a change (changes.numbers or changes.atoms, that is
\* beyond tolerance); the neighbour list is then updated against the live
\* geometry; with build_locals=False no views are held instead.
C15_RebuildOnChange ==
    [][(UpdateReturns /\ (\/ uop'.asked
                          \/ changes_numbers(changes, ref)
                          \/ changes_atoms(changes, ref) = "True")) =>
          /\ IF uop'.build_locals THEN FreshViews ELSE locs'.none
          /\ changes' = update_references(ref')
          /\ nlist'.built /\ nlist'.seen = Geometry(ref')
          /\ changes_numbers(changes, ref) => NewNeighbourList]_vars

C15_Witness ==
    /\ uop.name = "update" /\ ~uop.asked /\ uop.build_locals /\ uerr = "none"
    /\ edits = MaxEdits
    /\ Len(ref.numbers) = 2 /\ ref.numbers[1] # ref.numbers[2]
    /\ ~locs.none /\ Len(locs.views) = 2
    /\ locs.views[2].born = gen /\ nlist.born = gen /\ gen = 1
    /\ changes = update_references(ref)

\* C16 as stated: after every update that returns normally the snapshot
\* equals the live count, species, positions, cell and boundary flags.
C16_SnapshotEqual == (uop.name = "update" /\ uerr = "none") => SnapEq

\* C16 (amended): after every update that returns normally changes.atoms is
\* False (the snapshot equals the live state up to the tolerance of the
\* detector); the snapshot is replaced only by an update that rebuilds, with
\* the live state, and never by an update that does nothing.
C16_SnapshotFresh ==
    /\ []((uop.name = "update" /\ uerr = "none") =>
             changes_atoms(changes, ref) = "False")
    /\ [][changes' # changes =>
             /\ UpdateReturns
             /\ changes' = update_references(ref')
             /\ gen' # gen]_vars
    /\ [][(UpdateReturns /\ gen' = gen) => changes' = changes]_vars

C16_Witness ==
    /\ uop.name = "update" /\ uerr = "none"
    /\ ~SnapEq
    /\ edits = MaxEdits
    /\ changes._positions # <<>>
    /\ \E k \in 1..Len(changes._positions) : changes._positions[k] # 0

\* ------------------------------------------------ partition and gather
Ranks == 1..workers

\* index_distribute has run on rank r
Distributed(r) == gpc[r] # "new"

OwnedSet(r) == SeqRange(owned[r])

\* the owned index lists hold no index twice and each atom is owned by
\* exactly one rank
Partition ==
    /\ \A r \in Ranks : Distributed(r)
    /\ \A r \in Ranks : Cardinality(OwnedSet(r)) = Len(owned[r])
    /\ \A i \in 0..(NAtoms - 1) :
          Cardinality({r \in Ranks : i \in OwnedSet(r)}) = 1

Ascending(s) == \A k \in 1..(Len(s) - 1) : s[k] < s[k + 1]

\* C17: with an explicit rank list (values in [0, W)) the owned indices of
\* rank R are exactly the atoms i with ranks[i] = R, in ascending order, so
\* the owned sets are disjoint and cover [0, natoms); a configuration that is
\* not distributed owns all of [0, natoms).
C17_ExplicitPartition ==
    /\ (is_distributed /\ ranks # None) =>
          /\ \A r \in Ranks :
                Distributed(r) =>
                   /\ OwnedSet(r) = {i \in 0..(NAtoms - 1) : ranks[i + 1] = r - 1}
                   /\ Ascending(owned[r])
          /\ (\A r \in Ranks : Distributed(r)) => Partition
    /\ ~is_distributed =>
          \A r \in Ranks :
              Distributed(r) => owned[r] = [k \in 1..NAtoms |-> k - 1]

C17_Witness ==
    /\ is_distributed /\ ranks # None
    /\ workers = 2
    /\ ranks = <<1, 0, 1>>
    /\ owned = << <<1>>, <<0, 2>> >>
    /\ \A r \in Ranks : gpc[r] = "call"

\* C18: on a distributed configuration whose owned sets form a partition,
\* gathered() gives every rank a list of natoms views whose entry k is the
\* view of atom k, equal under == to the view a process that is not
\* distributed builds for atom k.
C18_GatherResult ==
    (is_distributed /\ Partition) =>
        \A r \in Ranks :
            /\ gathered[r].state # "FileNotFoundError"
            /\ gathered[r].state = "returned" =>
                  /\ Len(gathered[r].loc) = NAtoms
                  /\ \A k \in 1..NAtoms :
                        /\ gathered[r].loc[k].index = k - 1
                        /\ EqLocal(gathered[r].loc[k], loc[k]) = "True"

\* rank r is reading, or has read, the scratch folder
Reading(r) ==
    \/ gpc[r] = "load"
    \/ gpc[r] = "done" /\ Len(held[r]) < NAtoms /\ is_distributed

\* C19: a rank enters the barrier only after it has written all of its owned
\* views and reads the scratch folder only after it has left the barrier, so
\* while any rank reads, every rank has written all of its owned views.
C19_WriteBarrierRead ==
    /\ \A r \in Ranks :
          /\ gpc[r] \in {"barrier", "load"} => pickled[r] = Len(held[r])
          /\ Reading(r) => r \in arrived
    /\ (\E r \in Ranks : Reading(r)) =>
          \A q \in Ranks :
              /\ q \in arrived
              /\ pickled[q] = Len(held[q])
              /\ \A k \in 1..Len(held[q]) : folder[held[q][k].index] # <<>>

C19_Witness ==
    /\ workers = 2
    /\ \A r \in Ranks : gpc[r] = "done" /\ pickled[r] >= 1
    /\ \A r \in Ranks : gathered[r].state = "returned"

\* C20: either every rank executes the barrier or none does, and no rank is
\* left waiting at a barrier that the others will never reach, so that every
\* rank returns from gathered().
C20_BarrierSymmetry ==
    /\ \A r \in Ranks, q \in Ranks :
          ~(/\ gpc[r] \in {"barrier", "load"}
            /\ gpc[q] = "done" /\ q \notin arrived)
    /\ ~(/\ \E r \in Ranks : gpc[r] = "barrier"
         /\ \A r \in Ranks : gpc[r] \in {"barrier", "done"}
         /\ arrived # Ranks)

\* C29: every counter of the balancer, per species and total, stays at or
\* above zero whatever configurations assign, upload and unload are given.
C29_CountersNonNegative ==
    /\ \A r \in 1..world_size : total[r] >= 0
    /\ \A z \in DOMAIN loads : \A r \in 1..world_size : loads[z][r] >= 0

\* C30: with assign calls only, the per-rank totals differ by at most one,
\* whatever the mix of species.
C30_GlobalBalance == Spread(total) <= 1

C30_Witness ==
    /\ world_size >= 2
    /\ DOMAIN loads = Species
    /\ \A z \in Species : SumSeq(loads[z]) >= 1
    /\ SumSeq(total) >= 3
    /\ Spread(total) = 1

\* rank r has nothing to gather: the configuration is not distributed, or
\* the rank holds a view of every atom
NoWork(r) == Distributed(r) /\ (~is_distributed \/ Len(held[r]) >= NAtoms)

\* C22: a rank with nothing to gather gets its own list of views back as it
\* is, and neither writes to the scratch folder nor calls the barrier.
C22_GatherWithoutWork ==
    /\ [](\A r \in Ranks :
            NoWork(r) =>
               /\ gpc[r] \in {"call", "done"}
               /\ pickled[r] = 0
               /\ r \notin arrived
               /\ gpc[r] = "done" =>
                     gathered[r] = [state |-> "returned", loc |-> held[r]])
    /\ [][\A r \in Ranks :
            (NoWork(r) /\ gpc[r] = "call" /\ gpc'[r] # "call") =>
               /\ folder' = folder
               /\ held' = held
               /\ arrived' = arrived]_vars

C22_Witness ==
    /\ is_distributed
    /\ workers = 2
    /\ \E r \in Ranks :
          /\ Len(held[r]) = NAtoms
          /\ gpc[r] = "done"
          /\ gathered[r].state = "returned"

\* the candidates <<j, r>> the mask of the view of atom x selects
Selected(x) ==
    {<<loc[x + 1]._j[k], loc[x + 1]._r[k]>> :
        k \in {q \in 1..Len(loc[x + 1]._j) : loc[x + 1]._m[q]}}

\* C25: the order is computed at the first access and kept from then on,
\* whatever is selected later; each access gives exactly the selected
\* candidates, nearest first.
C25_NearestNeighbourOrder ==
    /\ [](vop = "nn" =>
            LET x == nnout.of
                d == norm2(nnout.nn_r)
            IN /\ cached[x + 1]._argsort # None
               /\ Len(nnout.nn) = Cardinality(Selected(x))
               /\ Len(nnout.nn_r) = Len(nnout.nn)
               /\ {<<nnout.nn[k], nnout.nn_r[k]>> : k \in 1..Len(nnout.nn)}
                     = Selected(x)
               /\ \A k \in 1..(Len(d) - 1) : d[k] <= d[k + 1])
    /\ [][\A a \in 1..NAtoms :
            /\ cached[a]._argsort # None => cached'[a] = cached[a]
            /\ cached'[a] # cached[a] => (vop' = "nn" /\ nnout'.of = a - 1)]_vars

C25_Witness ==
    /\ vop = "nn"
    /\ nnout.of = 0
    /\ Len(loc[1]._j) >= 2
    /\ Len(nnout.nn) = 1
    /\ \E k \in 1..Len(loc[1]._j) :
          ~loc[1]._m[k] /\ norm2(loc[1]._r)[k] < norm2(nnout.nn_r)[1]

\* C24: a registration that leaves two active feature generators with the
\* same name ends in the fatal error.
C24_UniqueNames ==
    [][(DistinctNames(names) /\ ~DistinctNames(names'))
          => dop'.err = "RuntimeError"]_vars

\* the ranks of the program
OwnRanks == 1..world

\* rank r holds a view of every atom, in index order
HoldsAll(r) == views[r] = Loc(RangeList(OwnAtoms))

\* C23: a gather_ that returns leaves the configuration not distributed,
\* owning every index and holding the view of atom k at place k; a
\* distribute_ on a configuration that holds every view in index order
\* leaves it distributed and holding the views of its new indices, in
\* their order.
C23_PostStates ==
    [][\A r \in OwnRanks :
          /\ (oop' = "gather_" /\ Running(r) /\ status'[r] = "none") =>
                /\ ~distributed'[r]
                /\ own'[r] = RangeList(OwnAtoms)
                /\ HoldsAll(r)'
          /\ (oop' = "distribute_" /\ Running(r) /\ HoldsAll(r)) =>
                /\ status'[r] = "none"
                /\ distributed'[r]
                /\ views'[r] = Loc(own'[r])]_vars

\* C27: on every rank the views are those of the owned indices, one for
\* one and in their order.
C27_ViewsTrackOwnership ==
    \A r \in OwnRanks : Running(r) => views[r] = Loc(own[r])

\* C28: the assertion of copy(group=True) never fails.
C28_CopyKeepsIndices ==
    \A r \in OwnRanks : copied[r].err # "AssertionError"

\* C21: every write and every read of a gather called with a scratch root
\* goes to that root, the view of atom i under the key of atom i.
C21_ScratchKeys ==
    /\ \A r \in DOMAIN access :
          access[r].kind # "none" => access[r].root = root
    /\ \A f \in Folders, i \in 1..ScrAtoms :
          store[f][i] # <<>> => store[f][i][1][2] = i - 1

\* C26: when the configurations are written and read under one root, the
\* view a rank reads for atom i while it gathers configuration c is the view
\* of atom i of configuration c.
C26_NoMixing ==
    (WriteRoot = ReadRoot) =>
        \A r \in DOMAIN got : \A c \in 1..Len(X) : \A k \in 1..Len(got[r][c]) :
            got[r][c][k] = ViewOf(c, k - 1)

\* the counters are those noted when the last assign was entered, a species
\* first seen by that assign having a vector of zeros
CountersRestored ==
    /\ total = before.total
    /\ \A z \in DOMAIN loads :
          loads[z] = IF z \in DOMAIN before.loads THEN before.loads[z] ELSE Zeros
    /\ DOMAIN before.loads \subseteq DOMAIN loads

\* C31: unload right after assign of a configuration puts every per-species
\* and total counter back to what it was before the assign, and leaves the
\* configuration without ranks, so that assign takes it again.
C31_AssignUnloadRoundTrip ==
    [][(op = "call_end" /\ op' = "unload") =>
          /\ err' = "none"
          /\ CountersRestored'
          /\ atoms'.ranks = None
          /\ atoms'.numbers = atoms.numbers]_vars

C31_Witness ==
    /\ op = "unload"
    /\ err = "none"
    /\ world_size >= 2
    /\ Len(atoms.numbers) >= 2
    /\ atoms.numbers = before.numbers
    /\ atoms.ranks = None
    /\ SumSeq(before.total) >= 1
    /\ DOMAIN before.loads # DOMAIN loads
    /\ CountersRestored

\* C32: the mask that select(a, b, bothways) installs after any sequence of
\* select and unselect calls is the mask the same call installs on the view
\* as constructed; a select repeated with the same arguments changes nothing.
C32_SelectHistoryIndependent ==
    /\ [](vop = "select" =>
            loc[asked.x + 1]._m =
                SelectMask(local(numbers, nl, asked.x), asked.a, asked.b,
                           asked.bothways))
    /\ [][(vop = "select" /\ vop' = "select" /\ asked' = asked) => loc' = loc]_vars

\* a select that follows a narrower select on the same view and installs a
\* mask with entries the earlier mask had cleared
C32_Witness ==
    /\ vop = "select"
    /\ asked.bothways
    /\ LET v == loc[asked.x + 1]
           w == SelectMask(v, asked.a, asked.a, FALSE)
       IN /\ asked.a = asked.b
          /\ v._m # w
          /\ \E k \in 1..Len(w) : w[k]
          /\ \E k \in 1..Len(w) : v._m[k] /\ ~w[k]
          /\ \E k \in 1..Len(w) : ~v._m[k]

\* a coordinate is farther from its value in the snapshot than the
\* tolerance atol + rtol * |snapshot| of the comparison
BeyondTolerance(k) ==
    100000 * Abs(ref.positions[k] - changes._positions[k]) >
        100000 + Abs(changes._positions[k])

\* C33: while the positions move in steps that each stay within the
\* tolerance, an update() that finds every coordinate within tolerance of the
\* snapshot keeps the snapshot and the views, so the displacement adds up
\* against the last snapshot taken; an update() that finds a coordinate
\* beyond the tolerance of the snapshot and returns has rebuilt the views and
\* taken a new snapshot of the live positions.
C33_DriftAgainstSnapshot ==
    /\ [][(UpdateReturns /\ \A k \in 1..Len(ref.positions) : ~BeyondTolerance(k)) =>
             /\ changes' = changes
             /\ locs' = locs
             /\ gen' = gen]_vars
    /\ [][(UpdateReturns /\ \E k \in 1..Len(ref.positions) : BeyondTolerance(k)) =>
             /\ FreshViews
             /\ gen' # gen
             /\ changes' # changes
             /\ changes'._positions = ref.positions]_vars

\* two steps of one unit have been taken and the update() after the second
\* has rebuilt the views and taken the positions into the snapshot
C33_Witness ==
    /\ uop.name = "update" /\ uerr = "none"
    /\ edits = 2
    /\ gen = 1
    /\ ~locs.none /\ Len(locs.views) = 2
    /\ \A k \in 1..2 : locs.views[k].born = 1
    /\ \E k \in 1..Len(ref.positions) :
          /\ Abs(ref.positions[k]) = 2
          /\ changes._positions[k] = ref.positions[k]

\* C34: a call with a fixed index at which the configuration has another
\* species than the claimed one raises RuntimeError, whose message names the
\* index and the claimed species, and returns nothing; a call without fixed
\* index computes ql for the first atom of the claimed species, and raises
\* when the configuration has no atom of that species.
C34_SpeciesLookup ==
    qop = "call" =>
        /\ (qvar.fixed /\ InRange(qnumbers, qvar.index)
              /\ At(qnumbers, qvar.index) # qvar.i) =>
               /\ qout.raised = "RuntimeError"
               /\ qout.named = <<qvar.index, qvar.i>>
               /\ qout.ql = <<>>
        /\ (~qvar.fixed /\ \E k \in 1..Len(qnumbers) : qnumbers[k] = qvar.i) =>
               /\ qout.raised = "none"
               /\ qout.ql # <<>>
               /\ qnumbers[qout.ql[1] + 1] = qvar.i
               /\ \A k \in 1..qout.ql[1] : qnumbers[k] # qvar.i
        /\ (~qvar.fixed /\ \A k \in 1..Len(qnumbers) : qnumbers[k] # qvar.i) =>
               /\ qout.raised # "none"
               /\ qout.ql = <<>>

\* a call with a fixed index that holds the other species, on a
\* configuration where the claimed species is found at another index
C34_Witness ==
    /\ qop = "call"
    /\ qvar.fixed
    /\ qvar.index >= 1
    /\ InRange(qnumbers, qvar.index)
    /\ At(qnumbers, qvar.index) # qvar.i
    /\ where(qnumbers, qvar.i) # <<>>
    /\ qout.raised = "RuntimeError"

====
